---- MODULE Spec2Model ----
(***************************************************************************)
(* A model of the storage core of the repository: the LRU-K replacer, the  *)
(* extendible hash table used as page table, the buffer pool manager and   *)
(* the B+ tree index that runs on top of it.                               *)
(*                                                                         *)
(* Every operation of the code is a pure operator over a record that holds *)
(* the members of the objects; an action applies one public operation and  *)
(* stores the members back into the variables.  A Page* of the code is the *)
(* index of its frame in pages_, so what a caller reads through a pointer  *)
(* is whatever the frame holds at that moment.                             *)
(***************************************************************************)
EXTENDS Integers, Sequences, FiniteSets, TLC

VARIABLES
  pool_size_,          \* BufferPoolManagerInstance::pool_size_
  pages_,              \* BufferPoolManagerInstance::pages_  (frame -> Page)
  page_table_,         \* BufferPoolManagerInstance::page_table_ (ExtendibleHashTable)
  replacer_,           \* BufferPoolManagerInstance::replacer_ (LRUKReplacer)
  free_list_,          \* BufferPoolManagerInstance::free_list_
  next_page_id_,       \* BufferPoolManagerInstance::next_page_id_
  disk,                \* the disk manager's file: page id -> last data written
  root_page_id_,       \* BPlusTree::root_page_id_
  leaf_max_size_,      \* BPlusTree::leaf_max_size_
  internal_max_size_,  \* BPlusTree::internal_max_size_
  ndebug,              \* the build: TRUE when assert() is compiled out (NDEBUG)
  crashed,             \* the process died: a failed assert, a throw, a null dereference
  live,                \* the contract's view: key -> value inserted and not removed (0: none)
  last,                \* the last call on the tree and what it returned
  calls,               \* the number of calls made on the tree
  latch_,              \* BufferPoolManagerInstance::latch_: the thread that holds it (0: free)
  pc,                  \* thread -> the buffer pool operation it is inside, and how far
  history              \* the frames passed to RecordAccess, oldest first, of the frames
                       \* the replacer tracks (kept where a replacer is called directly)

bpmvars == <<pool_size_, pages_, page_table_, replacer_, free_list_, next_page_id_, disk>>

(***************************************************************************)
(* Bounds of the model.                                                    *)
(***************************************************************************)
\* page ids handed out by AllocatePage in the buffer pool specification
MaxPageId == 2
\* pin counts explored in the buffer pool specification
MaxPin == 2
\* frames of the pool in the buffer pool specification
BpmPoolSize == 2
\* the replacer's k (constructor argument replacer_k)
ReplacerK == 2
\* the capacity of a page table bucket (constructor argument bucket_size)
BucketSize == 2
\* the tree's constructor arguments leaf_max_size and internal_max_size
LeafMaxSize == 3
InternalMaxSize == 3
\* frames of the pool under the tree
TreePoolSize == 10
\* keys and number of calls of the workload of inserts and removes
MaxKey == 4
MaxCalls == 6
\* keys (and calls) of the workload of inserts only
MaxGrowKey == 7

INVALID_PAGE_ID == -1

(***************************************************************************)
(* Helpers                                                                 *)
(***************************************************************************)
Max(S) == CHOOSE x \in S : \A y \in S : y <= x
Min(S) == CHOOSE x \in S : \A y \in S : x <= y
RemoveAt(seq, i) == SubSeq(seq, 1, i - 1) \o SubSeq(seq, i + 1, Len(seq))
InsertAt(seq, i, e) == SubSeq(seq, 1, i - 1) \o <<e>> \o SubSeq(seq, i, Len(seq))
Pow2(n) == 2 ^ n
\* the sequence f[1], ..., f[n]
RECURSIVE SeqOf(_, _)
SeqOf(f, n) == IF n = 0 THEN <<>> ELSE Append(SeqOf(f, n - 1), f[n])
\* the value of a function of one argument value: Only([x \in {e} |-> body])
\* is body with x standing for the value of e, which is computed once
Only(f) == f[CHOOSE x \in DOMAIN f : TRUE]

(***************************************************************************)
(* Page data.  A page is a fixed block of bytes that the index reads as a  *)
(* B+ tree page: header fields and the array of pairs up to size.  Zeroed  *)
(* memory (ResetMemory, a page never written to disk) reads as ZeroData.   *)
(***************************************************************************)
\* array_ is the flexible array at the end of a tree page; the model tracks
\* its first ArrayCap slots, one more than a page ever holds (the copy that
\* InsertIntoParent splits holds max_size + 1 pairs).  Slots at and beyond
\* size_ keep whatever was last written to them.
ArrayCap == Max({LeafMaxSize, InternalMaxSize}) + 1
ZeroPair == [k |-> 0, v |-> 0]
ZeroData ==
  [page_type_ |-> 0, size_ |-> 0, max_size_ |-> 0, parent_page_id_ |-> 0,
   page_id_ |-> 0, next_page_id_ |-> 0, array_ |-> SeqOf([i \in 1..ArrayCap |-> ZeroPair], ArrayCap)]

\* Page::Page(): an empty frame
EmptyPage ==
  [page_id_ |-> INVALID_PAGE_ID, pin_count_ |-> 0, is_dirty_ |-> FALSE, data_ |-> ZeroData]

\* DiskManager::WritePage / ReadPage on the file.  The file is a function
\* from page ids to data; a page never written reads as zeroes.
DiskManager(page_ids) == [p \in page_ids |-> ZeroData]
DiskWrite(d, page_id, data) == (page_id :> data) @@ d
DiskRead(d, page_id) == IF page_id \in DOMAIN d THEN d[page_id] ELSE ZeroData

(***************************************************************************)
(* LRUKReplacer.  The linked list l_ <-> ... <-> m_ <-> ... <-> r_ is two  *)
(* sequences: fifo is the part between l_ and m_ (fifo[1] = l_->right_),   *)
(* lru the part between m_ and r_ (lru[1] = m_->right_).  map_ is the set  *)
(* of keys of the nodes.  curr_size_ is written and never read: left out.  *)
(* fifo_size_ and lru_size_ are only ever read as their sum, in Size(),    *)
(* and each update adds the same amount to one of them, chosen by the      *)
(* frequency; the model keeps the sum as size_sum_.                        *)
(***************************************************************************)
LinkedNode(key) == [key_ |-> key, frequency_ |-> 1, evictable_ |-> FALSE]

LRUKReplacer(num_frames, k) ==
  [replacer_size_ |-> num_frames, k_ |-> k, fifo |-> <<>>, lru |-> <<>>,
   size_sum_ |-> 0]

LRUK_Size(r) == r.size_sum_

LRUK_Keys(seq) == {seq[i].key_ : i \in 1..Len(seq)}
LRUK_Tracked(r) == LRUK_Keys(r.fifo) \cup LRUK_Keys(r.lru)
LRUK_Pos(seq, f) == CHOOSE i \in 1..Len(seq) : seq[i].key_ = f
LRUK_Node(r, f) ==
  IF f \in LRUK_Keys(r.fifo) THEN r.fifo[LRUK_Pos(r.fifo, f)] ELSE r.lru[LRUK_Pos(r.lru, f)]
\* the list with the node of frame f unlinked
LRUK_Unlink(r, f) ==
  IF f \in LRUK_Keys(r.fifo)
  THEN [r EXCEPT !.fifo = RemoveAt(@, LRUK_Pos(r.fifo, f))]
  ELSE [r EXCEPT !.lru = RemoveAt(@, LRUK_Pos(r.lru, f))]

\* the walk of Evict: from m_->left_ towards l_, then from r_->left_ towards m_
LRUK_LastEvictable(seq) ==
  LET S == {i \in 1..Len(seq) : seq[i].evictable_} IN IF S = {} THEN 0 ELSE Max(S)

\* as LRUK_Evict, with the list behind m_ searched before the list before it
LRUK_Evict_LruFirst(r) ==
  IF LRUK_Size(r) = 0 THEN [rep |-> r, ok |-> FALSE, frame_id |-> -1]
  ELSE
    LET i == LRUK_LastEvictable(r.fifo)
        j == LRUK_LastEvictable(r.lru)
        node == IF j > 0 THEN r.lru[j] ELSE r.fifo[i]
        r1 == IF j > 0 THEN [r EXCEPT !.lru = RemoveAt(@, j)]
                       ELSE [r EXCEPT !.fifo = RemoveAt(@, i)]
    IN IF i = 0 /\ j = 0 THEN [rep |-> r, ok |-> FALSE, frame_id |-> -1]
       ELSE [rep |-> [r1 EXCEPT !.size_sum_ = @ - 1], ok |-> TRUE, frame_id |-> node.key_]

LRUK_Evict(r) ==
  IF LRUK_Size(r) = 0 THEN [rep |-> r, ok |-> FALSE, frame_id |-> -1]
  ELSE
    LET i == LRUK_LastEvictable(r.fifo)
        j == LRUK_LastEvictable(r.lru)
        node == IF i > 0 THEN r.fifo[i] ELSE r.lru[j]
        r1 == IF i > 0 THEN [r EXCEPT !.fifo = RemoveAt(@, i)]
                       ELSE [r EXCEPT !.lru = RemoveAt(@, j)]
        r2 == IF node.frequency_ >= r.k_
              THEN [r1 EXCEPT !.size_sum_ = @ - 1]
              ELSE [r1 EXCEPT !.size_sum_ = @ - 1]
    IN IF i = 0 /\ j = 0 THEN [rep |-> r, ok |-> FALSE, frame_id |-> -1]
       ELSE [rep |-> r2, ok |-> TRUE, frame_id |-> node.key_]

\* static_cast<size_t>(frame_id) > replacer_size_
LRUK_InvalidFrame(r, frame_id) == frame_id < 0 \/ frame_id > r.replacer_size_

\* frequency_++.  frequency_ is only ever compared with k_ and with 2, so the
\* model stops counting once it has reached both: every comparison of the
\* code comes out as it does with the exact count.
LRUK_IncFrequency(r, n) == IF n < Max({r.k_, 2}) THEN n + 1 ELSE n

LRUK_RecordAccess(r, frame_id) ==
  IF LRUK_InvalidFrame(r, frame_id) THEN r
  ELSE IF frame_id \in LRUK_Tracked(r)
  THEN LET old == LRUK_Node(r, frame_id)
           node == [old EXCEPT !.frequency_ = LRUK_IncFrequency(r, @)]
       IN IF node.frequency_ >= r.k_
          THEN [LRUK_Unlink(r, frame_id) EXCEPT !.lru = <<node>> \o @]
          ELSE [r EXCEPT !.fifo[LRUK_Pos(r.fifo, frame_id)] = node]
  ELSE [r EXCEPT !.fifo = <<LinkedNode(frame_id)>> \o @]

LRUK_SetNode(r, frame_id, node) ==
  IF frame_id \in LRUK_Keys(r.fifo)
  THEN [r EXCEPT !.fifo[LRUK_Pos(r.fifo, frame_id)] = node]
  ELSE [r EXCEPT !.lru[LRUK_Pos(r.lru, frame_id)] = node]

LRUK_SetEvictable(r, frame_id, set_evictable) ==
  IF LRUK_InvalidFrame(r, frame_id) THEN r
  ELSE IF frame_id \notin LRUK_Tracked(r) THEN r
  ELSE LET node == LRUK_Node(r, frame_id)
           old_flag == node.evictable_
           change == IF old_flag THEN -1 ELSE 1
           r1 == LRUK_SetNode(r, frame_id, [node EXCEPT !.evictable_ = set_evictable])
       IN IF set_evictable = old_flag THEN r
          ELSE IF node.frequency_ >= 2
               THEN [r1 EXCEPT !.size_sum_ = @ + change]
               ELSE [r1 EXCEPT !.size_sum_ = @ + change]

\* as LRUK_Remove, with neither size counter decremented
LRUK_Remove_SizeKept(r, frame_id) ==
  IF frame_id \notin LRUK_Tracked(r) THEN r
  ELSE IF ~LRUK_Node(r, frame_id).evictable_ THEN r
  ELSE LRUK_Unlink(r, frame_id)

LRUK_Remove(r, frame_id) ==
  IF frame_id \notin LRUK_Tracked(r) THEN r
  ELSE LET node == LRUK_Node(r, frame_id)
           r1 == LRUK_Unlink(r, frame_id)
       IN IF ~node.evictable_ THEN r
          ELSE IF node.frequency_ >= 2
               THEN [r1 EXCEPT !.size_sum_ = @ - 1]
               ELSE [r1 EXCEPT !.size_sum_ = @ - 1]

(***************************************************************************)
(* ExtendibleHashTable.  dir_ is a sequence (slot i is dir_[i + 1]) of     *)
(* indices into buckets; two slots share a bucket when they hold the same  *)
(* index.  A bucket no slot refers to is released, as its shared_ptr is.   *)
(***************************************************************************)
Bucket(array_size, depth) == [size_ |-> array_size, depth_ |-> depth, list_ |-> <<>>]

ExtendibleHashTable(bucket_size) ==
  [global_depth_ |-> 0, bucket_size_ |-> bucket_size, num_buckets_ |-> 1,
   dir_ |-> <<1>>, buckets |-> <<Bucket(bucket_size, 0)>>]

\* std::hash<int> is the identity; & mask keeps the low global_depth_ bits
HT_Hash(key) == key
HT_IndexOf(ht, key) == HT_Hash(key) % Pow2(ht.global_depth_)

Bucket_Pos(b, key) ==
  LET S == {i \in 1..Len(b.list_) : b.list_[i].k = key} IN IF S = {} THEN 0 ELSE Min(S)
\* as Bucket_IsFull, full only once the list is longer than size_
Bucket_IsFull_OneMore(b) == Len(b.list_) > b.size_

\* as Bucket_IsFull, with no bucket ever full
Bucket_IsFull_Never(b) == FALSE

Bucket_IsFull(b) == Len(b.list_) >= b.size_
Bucket_Has(b, key) == Bucket_Pos(b, key) > 0
Bucket_Value(b, key) == b.list_[Bucket_Pos(b, key)].v
\* Bucket::Insert: [bucket, ok]
Bucket_CanInsert(b, key) == Bucket_Has(b, key) \/ ~Bucket_IsFull(b)
Bucket_Insert(b, key, value) ==
  IF Bucket_Has(b, key) THEN [b EXCEPT !.list_[Bucket_Pos(b, key)].v = value]
  ELSE IF Bucket_IsFull(b) THEN b
  ELSE [b EXCEPT !.list_ = Append(@, [k |-> key, v |-> value])]
Bucket_Remove(b, key) ==
  IF Bucket_Has(b, key) THEN [b EXCEPT !.list_ = RemoveAt(@, Bucket_Pos(b, key))] ELSE b

HT_Bucket(ht, key) == ht.buckets[ht.dir_[HT_IndexOf(ht, key) + 1]]
HT_Has(ht, key) == Bucket_Has(HT_Bucket(ht, key), key)
\* Find: the value, valid when HT_Has
HT_Find(ht, key) == Bucket_Value(HT_Bucket(ht, key), key)
\* as HT_Remove, with a bucket that the removal empties no longer counted
HT_Remove_CountsDown(ht, key) ==
  [ht EXCEPT !.buckets[ht.dir_[HT_IndexOf(ht, key) + 1]] = Bucket_Remove(@, key),
             !.num_buckets_ = IF HT_Has(ht, key) /\ Len(HT_Bucket(ht, key).list_) = 1
                              THEN @ - 1 ELSE @]

HT_Remove(ht, key) ==
  [ht EXCEPT !.buckets[ht.dir_[HT_IndexOf(ht, key) + 1]] = Bucket_Remove(@, key)]

\* the buckets still referenced from dir_, renumbered in directory order
HT_Release(ht) ==
  LET used == {ht.dir_[i] : i \in 1..Len(ht.dir_)}
      first(b) == Min({i \in 1..Len(ht.dir_) : ht.dir_[i] = b})
      rank(b) == Cardinality({c \in used : first(c) <= first(b)})
      byrank(n) == CHOOSE b \in used : rank(b) = n
  IN [ht EXCEPT !.dir_ = SeqOf([i \in 1..Len(ht.dir_) |-> rank(ht.dir_[i])], Len(ht.dir_)),
                !.buckets = SeqOf([n \in 1..Cardinality(used) |-> ht.buckets[byrank(n)]],
                                  Cardinality(used))]

\* lines 140-144: the items of the split bucket go where IndexOf sends them
RECURSIVE HT_Redistribute(_, _)
HT_Redistribute(ht, items) ==
  IF items = <<>> THEN ht
  ELSE LET it == Head(items)
           b == ht.dir_[HT_IndexOf(ht, it.k) + 1]
       IN HT_Redistribute([ht EXCEPT !.buckets[b] = Bucket_Insert(@, it.k, it.v)], Tail(items))

\* as HT_Split, with the items of the split bucket not put into the new buckets
HT_Split_ItemsLost(ht, index) ==
  LET cur == ht.dir_[index + 1]
      cur_local_depth == ht.buckets[cur].depth_
      grow == ht.global_depth_ = cur_local_depth
      ht1 == IF grow
             THEN [ht EXCEPT !.global_depth_ = @ + 1, !.dir_ = @ \o @]
             ELSE ht
      n == Len(ht1.buckets)
      cnt == Pow2(ht1.global_depth_ - cur_local_depth)
      offset == index % Pow2(cur_local_depth)
      slots == {i * Pow2(cur_local_depth) + offset : i \in 0..(cnt - 1)}
      odd(slot) == ((slot - offset) \div Pow2(cur_local_depth)) % 2 = 1
      ht2 == [ht1 EXCEPT
                !.buckets = @ \o <<Bucket(ht.bucket_size_, cur_local_depth + 1),
                                   Bucket(ht.bucket_size_, cur_local_depth + 1)>>,
                !.num_buckets_ = @ + 1,
                !.dir_ = SeqOf([i \in 1..Len(ht1.dir_) |->
                                  IF (i - 1) \in slots
                                  THEN (IF odd(i - 1) THEN n + 2 ELSE n + 1)
                                  ELSE ht1.dir_[i]], Len(ht1.dir_))]
  IN HT_Release(ht2)

\* lines 110-144: one split of the bucket at slot index
HT_Split(ht, index) ==
  LET cur == ht.dir_[index + 1]
      cur_local_depth == ht.buckets[cur].depth_
      grow == ht.global_depth_ = cur_local_depth
      ht1 == IF grow
             THEN [ht EXCEPT !.global_depth_ = @ + 1, !.dir_ = @ \o @]
             ELSE ht
      n == Len(ht1.buckets)
      cnt == Pow2(ht1.global_depth_ - cur_local_depth)
      offset == index % Pow2(cur_local_depth)
      slots == {i * Pow2(cur_local_depth) + offset : i \in 0..(cnt - 1)}
      odd(slot) == ((slot - offset) \div Pow2(cur_local_depth)) % 2 = 1
      ht2 == [ht1 EXCEPT
                !.buckets = @ \o <<Bucket(ht.bucket_size_, cur_local_depth + 1),
                                   Bucket(ht.bucket_size_, cur_local_depth + 1)>>,
                !.num_buckets_ = @ + 1,
                !.dir_ = SeqOf([i \in 1..Len(ht1.dir_) |->
                                  IF (i - 1) \in slots
                                  THEN (IF odd(i - 1) THEN n + 2 ELSE n + 1)
                                  ELSE ht1.dir_[i]], Len(ht1.dir_))]
  IN HT_Release(HT_Redistribute(ht2, ht.buckets[cur].list_))

RECURSIVE HT_Insert(_, _, _)
HT_Insert(ht, key, value) ==
  LET index == HT_IndexOf(ht, key)
      b == ht.dir_[index + 1]
  IN IF Bucket_CanInsert(ht.buckets[b], key)
     THEN [ht EXCEPT !.buckets[b] = Bucket_Insert(@, key, value)]
     ELSE HT_Insert(HT_Split(ht, index), key, value)

(***************************************************************************)
(* BufferPoolManagerInstance.  s is the record of its members; every       *)
(* operation gives [s |-> members after the call, ret |-> what it returns].*)
(* A returned Page* is the frame index; nullptr is -1.                     *)
(***************************************************************************)
NULL == -1

BufferPoolManagerInstance(pool_size, disk_manager, replacer_k, bucket_size) ==
  [pool_size_ |-> pool_size,
   pages_ |-> [f \in 0..(pool_size - 1) |-> EmptyPage],
   page_table_ |-> ExtendibleHashTable(bucket_size),
   replacer_ |-> LRUKReplacer(pool_size, replacer_k),
   free_list_ |-> SeqOf([i \in 1..pool_size |-> i - 1], pool_size),
   next_page_id_ |-> 0,
   disk |-> disk_manager]

\* as BPM_AcquireFrame, with the write-back of a dirty victim forgotten
BPM_AcquireFrame_NoWriteBack(s) ==
  IF s.free_list_ = <<>>
  THEN Only([e \in {LRUK_Evict(s.replacer_)} |->
         IF e.ok
         THEN [s |-> [s EXCEPT !.replacer_ = e.rep,
                               !.pages_[e.frame_id].is_dirty_ = FALSE,
                               !.page_table_ = HT_Remove(@, s.pages_[e.frame_id].page_id_)],
               ret |-> e.frame_id]
         ELSE [s |-> s, ret |-> NULL]])
  ELSE [s |-> [s EXCEPT !.free_list_ = SubSeq(@, 1, Len(@) - 1)],
        ret |-> s.free_list_[Len(s.free_list_)]]

\* as BPM_AcquireFrame, with the replacer never asked
BPM_AcquireFrame_FreeListOnly(s) ==
  IF s.free_list_ = <<>>
  THEN [s |-> s, ret |-> NULL]
  ELSE [s |-> [s EXCEPT !.free_list_ = SubSeq(@, 1, Len(@) - 1)],
        ret |-> s.free_list_[Len(s.free_list_)]]

\* as BPM_AcquireFrame, with the victim's entry left in the page table
BPM_AcquireFrame_StaleEntry(s) ==
  IF s.free_list_ = <<>>
  THEN Only([e \in {LRUK_Evict(s.replacer_)} |->
         IF e.ok
         THEN LET victim == s.pages_[e.frame_id]
              IN [s |-> [s EXCEPT !.replacer_ = e.rep,
                                  !.disk = IF victim.is_dirty_
                                           THEN DiskWrite(@, victim.page_id_, victim.data_)
                                           ELSE @,
                                  !.pages_[e.frame_id].is_dirty_ = FALSE],
                  ret |-> e.frame_id]
         ELSE [s |-> s, ret |-> NULL]])
  ELSE [s |-> [s EXCEPT !.free_list_ = SubSeq(@, 1, Len(@) - 1)],
        ret |-> s.free_list_[Len(s.free_list_)]]

\* lines 251-264 and 292-305: a frame from the free list, else a victim of the
\* replacer, written back when dirty and dropped from the page table
BPM_AcquireFrame(s) ==
  IF s.free_list_ = <<>>
  THEN Only([e \in {LRUK_Evict(s.replacer_)} |->
         IF e.ok
         THEN LET victim == s.pages_[e.frame_id]
              IN [s |-> [s EXCEPT !.replacer_ = e.rep,
                                  !.disk = IF victim.is_dirty_
                                           THEN DiskWrite(@, victim.page_id_, victim.data_)
                                           ELSE @,
                                  !.pages_[e.frame_id].is_dirty_ = FALSE,
                                  !.page_table_ = HT_Remove(@, victim.page_id_)],
                  ret |-> e.frame_id]
         ELSE [s |-> s, ret |-> NULL]])
  ELSE [s |-> [s EXCEPT !.free_list_ = SubSeq(@, 1, Len(@) - 1)],
        ret |-> s.free_list_[Len(s.free_list_)]]

\* lines 265-277 and 306-318
BPM_Install(s, frame_id, page_id, data) ==
  [s EXCEPT !.pages_[frame_id] =
              [page_id_ |-> page_id, pin_count_ |-> 1, is_dirty_ |-> FALSE, data_ |-> data],
            !.page_table_ = HT_Insert(@, page_id, frame_id),
            !.replacer_ = LRUK_SetEvictable(LRUK_RecordAccess(@, frame_id), frame_id, FALSE)]

\* ret is the frame of the new page (NULL for nullptr), page_id the out parameter
NewPgImp(s) ==
  Only([a \in {BPM_AcquireFrame(s)} |->
    LET id == a.s.next_page_id_
    IN IF a.ret = NULL THEN [s |-> s, ret |-> NULL, page_id |-> INVALID_PAGE_ID]
       ELSE [s |-> BPM_Install([a.s EXCEPT !.next_page_id_ = @ + 1], a.ret, id, ZeroData),
             ret |-> a.ret, page_id |-> id]])

\* as FetchPgImp, with a resident page's frame left as the replacer has it
FetchPgImp_StaysEvictable(s, page_id) ==
  IF HT_Has(s.page_table_, page_id)
  THEN LET value == HT_Find(s.page_table_, page_id)
       IN [s |-> [s EXCEPT !.pages_[value].pin_count_ = @ + 1,
                           !.replacer_ = LRUK_RecordAccess(@, value)],
           ret |-> value]
  ELSE Only([a \in {BPM_AcquireFrame(s)} |->
         IF a.ret = NULL THEN [s |-> s, ret |-> NULL]
         ELSE [s |-> BPM_Install(a.s, a.ret, page_id, DiskRead(a.s.disk, page_id)),
               ret |-> a.ret]])

FetchPgImp(s, page_id) ==
  IF HT_Has(s.page_table_, page_id)
  THEN LET value == HT_Find(s.page_table_, page_id)
       IN [s |-> [s EXCEPT !.pages_[value].pin_count_ = @ + 1,
                           !.replacer_ = LRUK_SetEvictable(LRUK_RecordAccess(@, value), value, FALSE)],
           ret |-> value]
  ELSE Only([a \in {BPM_AcquireFrame(s)} |->
         IF a.ret = NULL THEN [s |-> s, ret |-> NULL]
         ELSE [s |-> BPM_Install(a.s, a.ret, page_id, DiskRead(a.s.disk, page_id)),
               ret |-> a.ret]])

\* as UnpinPgImp, with the frame made evictable whatever the pin count left
UnpinPgImp_AlwaysEvictable(s, page_id, is_dirty) ==
  IF ~HT_Has(s.page_table_, page_id) THEN [s |-> s, ret |-> FALSE]
  ELSE LET index == HT_Find(s.page_table_, page_id)
       IN IF s.pages_[index].pin_count_ <= 0 THEN [s |-> s, ret |-> FALSE]
          ELSE [s |-> [s EXCEPT !.pages_[index].pin_count_ = @ - 1,
                                !.replacer_ = LRUK_SetEvictable(@, index, TRUE),
                                !.pages_[index].is_dirty_ = IF is_dirty THEN TRUE ELSE @],
                ret |-> TRUE]

\* as UnpinPgImp, with the test for a pin count that is already zero forgotten
UnpinPgImp_NoFloor(s, page_id, is_dirty) ==
  IF ~HT_Has(s.page_table_, page_id) THEN [s |-> s, ret |-> FALSE]
  ELSE LET index == HT_Find(s.page_table_, page_id)
       IN [s |-> [s EXCEPT !.pages_[index].pin_count_ = @ - 1,
                           !.replacer_ = IF s.pages_[index].pin_count_ - 1 = 0
                                         THEN LRUK_SetEvictable(@, index, TRUE)
                                         ELSE @,
                           !.pages_[index].is_dirty_ = IF is_dirty THEN TRUE ELSE @],
           ret |-> TRUE]

UnpinPgImp(s, page_id, is_dirty) ==
  IF ~HT_Has(s.page_table_, page_id) THEN [s |-> s, ret |-> FALSE]
  ELSE LET index == HT_Find(s.page_table_, page_id)
       IN IF s.pages_[index].pin_count_ <= 0 THEN [s |-> s, ret |-> FALSE]
          ELSE [s |-> [s EXCEPT !.pages_[index].pin_count_ = @ - 1,
                                !.replacer_ = IF s.pages_[index].pin_count_ - 1 = 0
                                              THEN LRUK_SetEvictable(@, index, TRUE)
                                              ELSE @,
                                !.pages_[index].is_dirty_ = IF is_dirty THEN TRUE ELSE @],
                ret |-> TRUE]

FlushPgImp(s, page_id) ==
  IF ~HT_Has(s.page_table_, page_id) THEN [s |-> s, ret |-> FALSE]
  ELSE LET value == HT_Find(s.page_table_, page_id)
       IN [s |-> [s EXCEPT !.disk = DiskWrite(@, page_id, s.pages_[value].data_),
                           !.pages_[value].is_dirty_ = FALSE],
           ret |-> TRUE]

RECURSIVE BPM_FlushFrom(_, _)
BPM_FlushFrom(s, i) ==
  IF i >= s.pool_size_ THEN s
  ELSE BPM_FlushFrom([s EXCEPT !.disk = DiskWrite(@, s.pages_[i].page_id_, s.pages_[i].data_),
                               !.pages_[i].is_dirty_ = FALSE], i + 1)

\* the page ids the loop of lines 354-357 hands to WritePage, in order
RECURSIVE BPM_FlushIds(_, _)
BPM_FlushIds(s, i) ==
  IF i >= s.pool_size_ THEN <<>>
  ELSE <<s.pages_[i].page_id_>> \o BPM_FlushIds(s, i + 1)

\* written: the page ids of the calls of WritePage it made
FlushAllPgsImp(s) ==
  [s |-> BPM_FlushFrom(s, 0), ret |-> TRUE, written |-> BPM_FlushIds(s, 0)]

\* as DeletePgImp, with the frame not given back to the free list
DeletePgImp_FrameLost(s, page_id) ==
  IF ~HT_Has(s.page_table_, page_id) THEN [s |-> s, ret |-> TRUE]
  ELSE LET value == HT_Find(s.page_table_, page_id)
       IN IF s.pages_[value].pin_count_ # 0 THEN [s |-> s, ret |-> FALSE]
          ELSE [s |-> [s EXCEPT !.page_table_ = HT_Remove(@, page_id),
                                !.replacer_ = LRUK_Remove(@, value),
                                !.pages_[value] = EmptyPage],
                ret |-> TRUE]

\* as DeletePgImp, with the frame's node left in the replacer
DeletePgImp_NodeKept(s, page_id) ==
  IF ~HT_Has(s.page_table_, page_id) THEN [s |-> s, ret |-> TRUE]
  ELSE LET value == HT_Find(s.page_table_, page_id)
       IN IF s.pages_[value].pin_count_ # 0 THEN [s |-> s, ret |-> FALSE]
          ELSE [s |-> [s EXCEPT !.page_table_ = HT_Remove(@, page_id),
                                !.free_list_ = Append(@, value),
                                !.pages_[value] = EmptyPage],
                ret |-> TRUE]

DeletePgImp(s, page_id) ==
  IF ~HT_Has(s.page_table_, page_id) THEN [s |-> s, ret |-> TRUE]
  ELSE LET value == HT_Find(s.page_table_, page_id)
       IN IF s.pages_[value].pin_count_ # 0 THEN [s |-> s, ret |-> FALSE]
          ELSE [s |-> [s EXCEPT !.page_table_ = HT_Remove(@, page_id),
                                !.replacer_ = LRUK_Remove(@, value),
                                !.free_list_ = Append(@, value),
                                !.pages_[value] = EmptyPage],
                ret |-> TRUE]

(***************************************************************************)
(* The members as one record, and back.                                    *)
(***************************************************************************)
Bpm ==
  [pool_size_ |-> pool_size_, pages_ |-> pages_, page_table_ |-> page_table_,
   replacer_ |-> replacer_, free_list_ |-> free_list_, next_page_id_ |-> next_page_id_,
   disk |-> disk]

SetBpm(s) ==
  /\ pool_size_' = s.pool_size_
  /\ pages_' = s.pages_
  /\ page_table_' = s.page_table_
  /\ replacer_' = s.replacer_
  /\ free_list_' = s.free_list_
  /\ next_page_id_' = s.next_page_id_
  /\ disk' = s.disk

InitBpm(s) ==
  /\ pool_size_ = s.pool_size_
  /\ pages_ = s.pages_
  /\ page_table_ = s.page_table_
  /\ replacer_ = s.replacer_
  /\ free_list_ = s.free_list_
  /\ next_page_id_ = s.next_page_id_
  /\ disk = s.disk

vars == <<pool_size_, pages_, page_table_, replacer_, free_list_, next_page_id_, disk,
          root_page_id_, leaf_max_size_, internal_max_size_, ndebug, crashed, live, last, calls,
          latch_, pc, history>>
treevars == <<root_page_id_, leaf_max_size_, internal_max_size_, ndebug, crashed, live, last, calls>>
threadvars == <<latch_, pc>>

\* The threads that call the buffer pool.  A specification with one caller
\* leaves every thread outside any operation and the latch free.
Threads == {1, 2}
NoThread == Min(Threads) - 1
Idle == [op |-> "idle", page_id |-> 0, is_dirty |-> FALSE, i |-> 0, wrote |-> FALSE]
SingleCaller == latch_ = NoThread /\ pc = [t \in Threads |-> Idle] /\ history = <<>>

(***************************************************************************)
(* The buffer pool on its own: a client calls the public operations in any *)
(* order and writes the data of pages it holds a pin on.                   *)
(***************************************************************************)
ClientData == {1}
PageIds == 0..MaxPageId
NoCall == [op |-> "none", key |-> 0, ret |-> 0]
Resident(page_id) == HT_Has(page_table_, page_id)
FrameOf(page_id) == HT_Find(page_table_, page_id)

BpmInit ==
  /\ InitBpm(BufferPoolManagerInstance(BpmPoolSize, DiskManager(INVALID_PAGE_ID..MaxPageId),
                                       ReplacerK, BucketSize))
  /\ root_page_id_ = INVALID_PAGE_ID
  /\ leaf_max_size_ = 0
  /\ internal_max_size_ = 0
  /\ ndebug = FALSE
  /\ crashed = FALSE
  /\ live = <<>>
  /\ last = NoCall
  /\ calls = 0
  /\ SingleCaller

BpmNewPage ==
  /\ next_page_id_ <= MaxPageId
  /\ LET r == NewPgImp(Bpm)
     IN SetBpm(r.s)
  /\ UNCHANGED <<treevars, threadvars, history>>

BpmFetchPage(p) ==
  /\ p < next_page_id_
  /\ Resident(p) => pages_[FrameOf(p)].pin_count_ < MaxPin
  /\ LET r == FetchPgImp(Bpm, p)
     IN SetBpm(r.s)
  /\ UNCHANGED <<treevars, threadvars, history>>

BpmUnpinPage(p, is_dirty) ==
  /\ LET r == UnpinPgImp(Bpm, p, is_dirty)
     IN SetBpm(r.s)
  /\ UNCHANGED <<treevars, threadvars, history>>

BpmFlushPage(p) ==
  /\ LET r == FlushPgImp(Bpm, p)
     IN SetBpm(r.s)
  /\ UNCHANGED <<treevars, threadvars, history>>

BpmFlushAllPages ==
  /\ LET r == FlushAllPgsImp(Bpm)
     IN SetBpm(r.s)
  /\ UNCHANGED <<treevars, threadvars, history>>

BpmDeletePage(p) ==
  /\ LET r == DeletePgImp(Bpm, p)
     IN SetBpm(r.s)
  /\ UNCHANGED <<treevars, threadvars, history>>

\* the holder of a pin writes the page's data through the Page* it was given
BpmWriteData(p, d) ==
  /\ Resident(p)
  /\ pages_[FrameOf(p)].pin_count_ > 0
  /\ pages_' = [pages_ EXCEPT ![FrameOf(p)].data_ = [ZeroData EXCEPT !.size_ = d]]
  /\ UNCHANGED <<pool_size_, page_table_, replacer_, free_list_, next_page_id_, disk>>
  /\ UNCHANGED <<treevars, threadvars, history>>

BpmNext ==
  \/ BpmNewPage
  \/ \E p \in PageIds : BpmFetchPage(p)
  \/ \E p \in PageIds, is_dirty \in BOOLEAN : BpmUnpinPage(p, is_dirty)
  \/ \E p \in PageIds : BpmFlushPage(p)
  \/ BpmFlushAllPages
  \/ \E p \in PageIds : BpmDeletePage(p)
  \/ \E p \in PageIds, d \in ClientData : BpmWriteData(p, d)

SpecBpm == BpmInit /\ [][BpmNext]_vars

(***************************************************************************)
(* Claims about the buffer pool manager (checked under SpecBpm).           *)
(***************************************************************************)
Frames == DOMAIN pages_
Holds(f) == pages_[f].page_id_ # INVALID_PAGE_ID
Pinned(f) == Holds(f) /\ pages_[f].pin_count_ > 0
SomeEvictable(r) ==
  \/ \E i \in 1..Len(r.fifo) : r.fifo[i].evictable_
  \/ \E i \in 1..Len(r.lru) : r.lru[i].evictable_
Exhausted == free_list_ = <<>> /\ ~SomeEvictable(replacer_)

\* C8: a page whose pin_count is greater than zero is not evicted by any
\* buffer pool call: after the call it is still in the page table, still
\* in the same frame, and the frame still holds that page.
C8_PinnedNeverEvicted ==
  [][\A f \in Frames :
       Pinned(f) =>
         /\ pages_'[f].page_id_ = pages_[f].page_id_
         /\ HT_Has(page_table_', pages_[f].page_id_)
         /\ HT_Find(page_table_', pages_[f].page_id_) = f]_vars

\* a page stayed pinned in its frame while the pool, with no free frame left,
\* evicted another page to make room
C8_Witness ==
  /\ free_list_ = <<>>
  /\ \E f \in Frames : Pinned(f) /\ pages_[f].page_id_ = 0
  /\ \E p \in 1..(next_page_id_ - 1) : ~Resident(p) /\ disk[p] # ZeroData
  /\ \E f \in Frames : Holds(f) /\ pages_[f].page_id_ > 1

\* C9: new_page, and fetch_page of a page that is not resident, return null
\* exactly when the free list is empty and the replacer has no evictable
\* frame, and then change nothing; otherwise they return the page with
\* pin_count 1, and new_page returns the id next_page_id_, above every id
\* handed out before.
C9_NullOnlyWhenExhausted ==
  LET n == NewPgImp(Bpm)
  IN /\ (n.ret = NULL) <=> Exhausted
     /\ n.ret = NULL => n.s = Bpm
     /\ n.ret # NULL =>
          /\ n.s.pages_[n.ret].pin_count_ = 1
          /\ n.s.pages_[n.ret].page_id_ = n.page_id
          /\ n.page_id = next_page_id_
          /\ n.s.next_page_id_ = next_page_id_ + 1
          /\ \A f \in Frames : pages_[f].page_id_ < next_page_id_
     /\ \A p \in PageIds :
          ~Resident(p) =>
            LET r == FetchPgImp(Bpm, p)
            IN /\ (r.ret = NULL) <=> Exhausted
               /\ r.ret = NULL => r.s = Bpm
               /\ r.ret # NULL =>
                    /\ r.s.pages_[r.ret].pin_count_ = 1
                    /\ r.s.pages_[r.ret].page_id_ = p

\* every frame holds a pinned page, one of them brought in by an eviction
C9_Witness ==
  /\ Exhausted
  /\ \A f \in Frames : Pinned(f)
  /\ next_page_id_ > pool_size_
  /\ NewPgImp(Bpm).ret = NULL

\* C10 as claimed: whenever a frame stops holding a dirty page, on any path
\* to its reuse (eviction, or delete_page and the free list), the page's
\* data was written to disk before the frame's memory was overwritten.
C10_DirtyAlwaysWritten ==
  [][\A f \in Frames :
       (Holds(f) /\ pages_[f].is_dirty_ /\ pages_'[f].page_id_ # pages_[f].page_id_) =>
         disk'[pages_[f].page_id_] = pages_[f].data_]_vars

\* C10 amended: whenever new_page or fetch_page evicts a dirty page to take
\* over its frame, the page's data is on disk when the frame holds the new
\* page.  (delete_page drops a dirty page without writing it.)
C10_DirtyVictimWritten ==
  [][\A f \in Frames :
       (/\ Holds(f) /\ pages_[f].is_dirty_
        /\ pages_'[f].page_id_ # pages_[f].page_id_
        /\ pages_'[f].page_id_ # INVALID_PAGE_ID) =>
         disk'[pages_[f].page_id_] = pages_[f].data_]_vars

\* a page written by its holder and unpinned dirty was evicted: it is no
\* longer resident and the disk holds the data the holder wrote
C10_Witness ==
  \E p \in PageIds :
    /\ p < next_page_id_ /\ ~Resident(p)
    /\ free_list_ = <<>>
    /\ disk[p] # ZeroData

\* the number of entries (page id -> frame) the page table holds
HT_Size(ht) ==
  Cardinality({ij \in (1..Len(ht.buckets)) \X (1..ht.bucket_size_) :
                 ij[2] <= Len(ht.buckets[ij[1]].list_)})

\* C11: after every buffer pool operation the number of frames in the free
\* list plus the number of entries of the page table is the pool size.
C11_FreePlusDirectory == Len(free_list_) + HT_Size(page_table_) = pool_size_

\* more pages were made than the pool has frames, and one frame is back in
\* the free list: pages were evicted and a page was deleted
C11_Witness ==
  /\ next_page_id_ > pool_size_
  /\ Len(free_list_) = 1
  /\ HT_Size(page_table_) = 1

\* the entries [k |-> page id, v |-> frame] the page table holds
HT_Entries(ht) ==
  {ht.buckets[ij[1]].list_[ij[2]] :
     ij \in {xy \in (1..Len(ht.buckets)) \X (1..ht.bucket_size_) :
               xy[2] <= Len(ht.buckets[xy[1]].list_)}}

\* C12: after every buffer pool operation every page table entry p -> f
\* points to a frame whose header carries page id p, no two entries point to
\* the same frame, and no frame of the free list is the target of an entry.
C12_DirectoryConsistent ==
  /\ \A e \in HT_Entries(page_table_) : pages_[e.v].page_id_ = e.k
  /\ \A e1, e2 \in HT_Entries(page_table_) : e1.v = e2.v => e1 = e2
  /\ \A i \in 1..Len(free_list_) :
       \A e \in HT_Entries(page_table_) : e.v # free_list_[i]

\* page 0, first installed in the last frame, is resident again in frame 0
\* after an eviction, next to a page made later
C12_Witness ==
  /\ Resident(0) /\ FrameOf(0) = 0
  /\ Resident(2)
  /\ HT_Size(page_table_) = 2

\* the replacer has frame f marked evictable
Evictable(r, f) == f \in LRUK_Tracked(r) /\ LRUK_Node(r, f).evictable_
\* the frames that hold a resident page with pin count 0
UnpinnedFrames == {e.v : e \in {x \in HT_Entries(page_table_) : pages_[x.v].pin_count_ = 0}}

\* C13: after every buffer pool operation, for every frame that holds a
\* resident page, the pin count is 0 exactly when the replacer has the frame
\* marked evictable; the replacer's Size() is the number of resident pages
\* with pin count 0.
C13_UnpinnedIffEvictable ==
  /\ \A e \in HT_Entries(page_table_) :
       (pages_[e.v].pin_count_ = 0) <=> Evictable(replacer_, e.v)
  /\ LRUK_Size(replacer_) = Cardinality(UnpinnedFrames)

\* after an eviction one resident page is unpinned and evictable while the
\* other is pinned twice
C13_Witness ==
  /\ next_page_id_ > pool_size_
  /\ \E e \in HT_Entries(page_table_) :
       pages_[e.v].pin_count_ = 0 /\ Evictable(replacer_, e.v)
  /\ \E e \in HT_Entries(page_table_) :
       pages_[e.v].pin_count_ = 2 /\ ~Evictable(replacer_, e.v)
  /\ LRUK_Size(replacer_) = 1

\* C14: unpin_page(p, dirty) returns false and changes nothing when p is not
\* resident or its pin count is already zero; otherwise it returns true,
\* takes exactly one off the pin count of p's frame, leaves every other pin
\* count alone and leaves the frame evictable exactly when the count has
\* reached zero.  No pin count is ever negative.
C14_UnpinContract ==
  /\ \A f \in Frames : pages_[f].pin_count_ >= 0
  /\ \A p \in PageIds, is_dirty \in BOOLEAN :
       LET r == UnpinPgImp(Bpm, p, is_dirty)
       IN IF ~Resident(p) \/ pages_[FrameOf(p)].pin_count_ = 0
          THEN r.ret = FALSE /\ r.s = Bpm
          ELSE /\ r.ret = TRUE
               /\ r.s.pages_[FrameOf(p)].pin_count_ = pages_[FrameOf(p)].pin_count_ - 1
               /\ r.s.pages_[FrameOf(p)].pin_count_ >= 0
               /\ \A f \in Frames \ {FrameOf(p)} : r.s.pages_[f] = pages_[f]
               /\ Evictable(r.s.replacer_, FrameOf(p)) <=> (r.s.pages_[FrameOf(p)].pin_count_ = 0)
               /\ r.s.page_table_ = page_table_ /\ r.s.free_list_ = free_list_

\* page 0 was unpinned dirty down to zero, so that another unpin fails;
\* page 1 is pinned twice, so that an unpin leaves it pinned; page 2 is not
\* resident
C14_Witness ==
  /\ Resident(0) /\ pages_[FrameOf(0)].pin_count_ = 0 /\ pages_[FrameOf(0)].is_dirty_
  /\ UnpinPgImp(Bpm, 0, TRUE).ret = FALSE
  /\ Resident(1) /\ pages_[FrameOf(1)].pin_count_ = 2
  /\ UnpinPgImp(Bpm, 1, FALSE).ret = TRUE
  /\ ~Resident(2) /\ UnpinPgImp(Bpm, 2, FALSE).ret = FALSE

\* C15: delete_page(p) returns true and changes nothing when p is not
\* resident; returns false and changes nothing when p's pin count is greater
\* than zero; otherwise it returns true, takes p out of the page table
\* (every other entry stays), takes p's frame out of the replacer, so that
\* Evict cannot return it, and appends the frame to the free list.
C15_DeleteContract ==
  \A p \in PageIds :
    LET r == DeletePgImp(Bpm, p)
    IN IF ~Resident(p) THEN r.ret = TRUE /\ r.s = Bpm
       ELSE IF pages_[FrameOf(p)].pin_count_ > 0 THEN r.ret = FALSE /\ r.s = Bpm
       ELSE /\ r.ret = TRUE
            /\ HT_Entries(r.s.page_table_) = HT_Entries(page_table_) \ {[k |-> p, v |-> FrameOf(p)]}
            /\ FrameOf(p) \notin LRUK_Tracked(r.s.replacer_)
            /\ LRUK_Size(r.s.replacer_) = LRUK_Size(replacer_) - 1
            /\ LET e == LRUK_Evict(r.s.replacer_) IN e.ok => e.frame_id # FrameOf(p)
            /\ r.s.free_list_ = Append(free_list_, FrameOf(p))

\* page 0 was deleted and its frame 1 is back in the free list and unknown
\* to the replacer; deleting it again returns true; page 1 is pinned, so
\* deleting it returns false
C15_Witness ==
  /\ free_list_ = <<1>>
  /\ next_page_id_ = 2
  /\ ~Resident(0) /\ DeletePgImp(Bpm, 0).ret = TRUE
  /\ 1 \notin LRUK_Tracked(replacer_)
  /\ Resident(1) /\ pages_[FrameOf(1)].pin_count_ > 0 /\ DeletePgImp(Bpm, 1).ret = FALSE

\* C16: flush_all writes to disk exactly the resident pages, each under its
\* own valid page id, and clears their dirty flags; a frame that holds no
\* page (page id -1) causes no disk write.
C16_FlushAllWritesResident ==
  LET r == FlushAllPgsImp(Bpm)
      ids == {r.written[i] : i \in 1..Len(r.written)}
  IN /\ ids = {e.k : e \in HT_Entries(page_table_)}
     /\ INVALID_PAGE_ID \notin ids
     /\ \A e \in HT_Entries(page_table_) :
          r.s.disk[e.k] = pages_[e.v].data_ /\ ~r.s.pages_[e.v].is_dirty_

(***************************************************************************)
(* The buffer pool called by two threads.  An operation that opens with    *)
(* std::scoped_lock lock(latch_) is two steps of its thread: taking the    *)
(* latch, which waits until the latch is free, and the body up to the      *)
(* return, where the lock's destructor frees the latch.  FlushAllPgsImp    *)
(* has no lock: its loop is one step for each WritePage and one for each   *)
(* store to is_dirty_, and nothing makes its thread wait.                  *)
(***************************************************************************)
\* page ids handed out by AllocatePage in the specification of two threads
ConcMaxPageId == 1
ConcPageIds == 0..ConcMaxPageId
LockedOps == {"new_page", "fetch_page", "unpin_page", "flush_page", "delete_page"}
InOperation(t) == pc[t] # Idle

ConcInit ==
  /\ InitBpm(BufferPoolManagerInstance(BpmPoolSize, DiskManager(INVALID_PAGE_ID..ConcMaxPageId),
                                       ReplacerK, BucketSize))
  /\ root_page_id_ = INVALID_PAGE_ID
  /\ leaf_max_size_ = 0
  /\ internal_max_size_ = 0
  /\ ndebug = FALSE
  /\ crashed = FALSE
  /\ live = <<>>
  /\ last = NoCall
  /\ calls = 0
  /\ SingleCaller

\* thread t calls operation op and takes the latch
ConcLock(t, op, p, d) ==
  /\ pc[t] = Idle
  /\ latch_ = NoThread
  /\ (op = "new_page") => (next_page_id_ <= ConcMaxPageId /\ p = 0)
  /\ (op = "fetch_page") =>
       (p < next_page_id_ /\ (Resident(p) => pages_[FrameOf(p)].pin_count_ < MaxPin))
  /\ (op # "unpin_page") => (d = FALSE)
  /\ latch_' = t
  /\ pc' = [pc EXCEPT ![t] = [Idle EXCEPT !.op = op, !.page_id = p, !.is_dirty = d]]
  /\ UNCHANGED <<bpmvars, treevars, history>>

\* the members after the body of the operation c that holds the latch
ConcBody(s, c) ==
  CASE c.op = "new_page" -> NewPgImp(s).s
    [] c.op = "fetch_page" -> FetchPgImp(s, c.page_id).s
    [] c.op = "unpin_page" -> UnpinPgImp(s, c.page_id, c.is_dirty).s
    [] c.op = "flush_page" -> FlushPgImp(s, c.page_id).s
    [] c.op = "delete_page" -> DeletePgImp(s, c.page_id).s

\* thread t runs the body of its operation and returns, freeing the latch
ConcRun(t) ==
  /\ pc[t].op \in LockedOps
  /\ latch_ = t
  /\ \E s \in {ConcBody(Bpm, pc[t])} : SetBpm(s)
  /\ latch_' = NoThread
  /\ pc' = [pc EXCEPT ![t] = Idle]
  /\ UNCHANGED <<treevars, history>>

\* thread t calls FlushAllPgsImp: line 354, i = 0
ConcFlushAllCall(t) ==
  /\ pc[t] = Idle
  /\ pc' = [pc EXCEPT ![t] = [Idle EXCEPT !.op = "flush_all"]]
  /\ UNCHANGED <<bpmvars, treevars, latch_, history>>

\* line 355: WritePage(pages_[i].GetPageId(), pages_[i].GetData())
ConcFlushAllWrite(t) ==
  /\ pc[t].op = "flush_all" /\ pc[t].i < pool_size_ /\ ~pc[t].wrote
  /\ disk' = DiskWrite(disk, pages_[pc[t].i].page_id_, pages_[pc[t].i].data_)
  /\ pc' = [pc EXCEPT ![t].wrote = TRUE]
  /\ UNCHANGED <<pool_size_, pages_, page_table_, replacer_, free_list_, next_page_id_>>
  /\ UNCHANGED <<treevars, latch_, history>>

\* line 356 and the loop's i++: pages_[i].is_dirty_ = false
ConcFlushAllClear(t) ==
  /\ pc[t].op = "flush_all" /\ pc[t].wrote
  /\ pages_' = [pages_ EXCEPT ![pc[t].i].is_dirty_ = FALSE]
  /\ pc' = [pc EXCEPT ![t].wrote = FALSE, ![t].i = @ + 1]
  /\ UNCHANGED <<pool_size_, page_table_, replacer_, free_list_, next_page_id_, disk>>
  /\ UNCHANGED <<treevars, latch_, history>>

\* line 354 with i = pool_size_: the loop ends and the call returns
ConcFlushAllReturn(t) ==
  /\ pc[t].op = "flush_all" /\ pc[t].i >= pool_size_
  /\ pc' = [pc EXCEPT ![t] = Idle]
  /\ UNCHANGED <<bpmvars, treevars, latch_, history>>

\* a thread outside any operation writes the data of a page it holds a pin on
ConcWriteData(t, p, d) ==
  /\ pc[t] = Idle
  /\ Resident(p)
  /\ pages_[FrameOf(p)].pin_count_ > 0
  /\ pages_[FrameOf(p)].data_ = ZeroData
  /\ pages_' = [pages_ EXCEPT ![FrameOf(p)].data_ = [ZeroData EXCEPT !.size_ = d]]
  /\ UNCHANGED <<pool_size_, page_table_, replacer_, free_list_, next_page_id_, disk>>
  /\ UNCHANGED <<treevars, threadvars, history>>

ConcNext ==
  \/ \E t \in Threads, op \in LockedOps, p \in ConcPageIds, d \in BOOLEAN : ConcLock(t, op, p, d)
  \/ \E t \in Threads : ConcRun(t)
  \/ \E t \in Threads : ConcFlushAllCall(t)
  \/ \E t \in Threads : ConcFlushAllWrite(t)
  \/ \E t \in Threads : ConcFlushAllClear(t)
  \/ \E t \in Threads : ConcFlushAllReturn(t)
  \/ \E t \in Threads, p \in ConcPageIds, d \in ClientData : ConcWriteData(t, p, d)

SpecConc == ConcInit /\ [][ConcNext]_vars

\* the fields of the frames' headers that the pool's operations maintain
Headers(pp) ==
  [f \in DOMAIN pp |-> <<pp[f].page_id_, pp[f].pin_count_, pp[f].is_dirty_>>]

\* C17: every public operation of the buffer pool (new_page, fetch_page,
\* unpin_page, flush_page, flush_all, delete_page) holds the pool's latch
\* for its whole duration: a thread inside an operation holds the latch,
\* and while it is inside and takes no step itself no page id, pin count
\* or dirty flag of a frame and nothing on disk changes.
C17_OperationsSerialised ==
  [][\A t \in Threads :
       /\ InOperation(t) => latch_ = t
       /\ (InOperation(t) /\ pc'[t] = pc[t]) =>
            (Headers(pages_') = Headers(pages_) /\ disk' = disk)]_vars

(***************************************************************************)
(* The replacer on its own: a caller makes any calls of RecordAccess,      *)
(* SetEvictable, Evict and Remove on a replacer built with any k.  history *)
(* is what the caller knows: the frames it passed to RecordAccess without  *)
(* an exception, in order, less those of a frame that Evict returned or    *)
(* Remove erased (such a frame is unknown to the replacer from then on).   *)
(* A call of RecordAccess or SetEvictable that throws leaves the replacer  *)
(* as it was: the caller catches the exception and goes on.                *)
(***************************************************************************)
\* num_frames and the largest k of the replacers built
RepFrames == 2
RepMaxK == 3
\* accesses recorded for one frame while the replacer tracks it
RepMaxCount == 3
\* frame ids passed to the calls: 0 .. num_frames - 1 and two on each side
RepFrameIds == (0 - 2)..(RepFrames + 1)

Count(f) == Cardinality({i \in 1..Len(history) : history[i] = f})
FirstAccess(f) == Min({i \in 1..Len(history) : history[i] = f})
LastAccess(f) == Max({i \in 1..Len(history) : history[i] = f})
Forget(f) == LET keep(x) == x # f IN SelectSeq(history, keep)
repothers ==
  <<pool_size_, pages_, page_table_, free_list_, next_page_id_, disk,
    root_page_id_, leaf_max_size_, internal_max_size_, ndebug, crashed, live, last, calls, threadvars>>

RepInit ==
  /\ \E k \in 1..RepMaxK : replacer_ = LRUKReplacer(RepFrames, k)
  /\ pool_size_ = RepFrames
  /\ pages_ = <<>>
  /\ page_table_ = ExtendibleHashTable(BucketSize)
  /\ free_list_ = <<>>
  /\ next_page_id_ = 0
  /\ disk = DiskManager({})
  /\ root_page_id_ = INVALID_PAGE_ID
  /\ leaf_max_size_ = 0
  /\ internal_max_size_ = 0
  /\ ndebug = FALSE
  /\ crashed = FALSE
  /\ live = <<>>
  /\ last = NoCall
  /\ calls = 0
  /\ SingleCaller

RepRecordAccess(f) ==
  /\ Count(f) < RepMaxCount
  /\ replacer_' = LRUK_RecordAccess(replacer_, f)
  /\ history' = IF LRUK_InvalidFrame(replacer_, f) THEN history ELSE Append(history, f)
  /\ UNCHANGED repothers

RepSetEvictable(f, set_evictable) ==
  /\ replacer_' = LRUK_SetEvictable(replacer_, f, set_evictable)
  /\ UNCHANGED <<history, repothers>>

RepEvict ==
  /\ \E e \in {LRUK_Evict(replacer_)} :
       /\ replacer_' = e.rep
       /\ history' = IF e.ok THEN Forget(e.frame_id) ELSE history
  /\ UNCHANGED repothers

RepRemove(f) ==
  /\ replacer_' = LRUK_Remove(replacer_, f)
  /\ history' = IF f \in LRUK_Tracked(LRUK_Remove(replacer_, f)) THEN history ELSE Forget(f)
  /\ UNCHANGED repothers

RepNext ==
  \/ \E f \in RepFrameIds : RepRecordAccess(f)
  \/ \E f \in RepFrameIds, set_evictable \in BOOLEAN : RepSetEvictable(f, set_evictable)
  \/ RepEvict
  \/ \E f \in RepFrameIds : RepRemove(f)

SpecRep == RepInit /\ [][RepNext]_vars

\* the frames the caller has marked evictable, by the number of accesses
EvictableFrames == {f \in LRUK_Tracked(replacer_) : LRUK_Node(replacer_, f).evictable_}
FifoRegion == {f \in EvictableFrames : Count(f) < replacer_.k_}
LruRegion == {f \in EvictableFrames : Count(f) >= replacer_.k_}
\* the victim the policy names (INVALID_PAGE_ID - 1 stands for none)
NoFrame == INVALID_PAGE_ID - 1
Victim ==
  IF FifoRegion # {}
  THEN CHOOSE f \in FifoRegion : \A g \in FifoRegion : FirstAccess(f) <= FirstAccess(g)
  ELSE IF LruRegion # {}
  THEN CHOOSE f \in LruRegion : \A g \in LruRegion : LastAccess(f) <= LastAccess(g)
  ELSE NoFrame

\* C18: Evict returns the evictable frame of the FIFO region (fewer than k
\* accesses) whose first access is the earliest, if there is one; otherwise
\* the evictable frame of the LRU region (k accesses or more) whose most
\* recent access is the oldest; otherwise none.  The frame returned is
\* removed from the replacer and Size() goes down by one.
C18_EvictPolicy ==
  LET e == LRUK_Evict(replacer_)
  IN /\ e.ok <=> (Victim # NoFrame)
     /\ e.ok =>
          /\ e.frame_id = Victim
          /\ e.frame_id \notin LRUK_Tracked(e.rep)
          /\ LRUK_Size(e.rep) = LRUK_Size(replacer_) - 1
     /\ ~e.ok => e.rep = replacer_

\* C19: after any calls of RecordAccess, SetEvictable, Evict and Remove, for
\* any k >= 1, Size() is the number of tracked frames whose evictable flag
\* is true; SetEvictable changes Size() by +1 or -1 when it flips the flag
\* of a tracked frame and not at all otherwise; RecordAccess never changes
\* Size().
C19_SizeCountsEvictable ==
  /\ LRUK_Size(replacer_) = Cardinality(EvictableFrames)
  /\ \A f \in RepFrameIds :
       LRUK_Size(LRUK_RecordAccess(replacer_, f)) = LRUK_Size(replacer_)
  /\ \A f \in RepFrameIds, set_evictable \in BOOLEAN :
       LET r == LRUK_SetEvictable(replacer_, f, set_evictable)
           flips == /\ f \in LRUK_Tracked(replacer_)
                    /\ LRUK_Node(replacer_, f).evictable_ # set_evictable
       IN LRUK_Size(r) = LRUK_Size(replacer_)
                           + (IF ~flips THEN 0 ELSE IF set_evictable THEN 1 ELSE -1)

\* a replacer with k = 1 that tracks three frames, two of them evictable,
\* one before m_ and one behind it, and one not evictable
C19_Witness ==
  /\ replacer_.k_ = 1
  /\ Cardinality(LRUK_Tracked(replacer_)) = 3
  /\ LRUK_Size(replacer_) = 2
  /\ \E i \in 1..Len(replacer_.fifo) : replacer_.fifo[i].evictable_
  /\ \E i \in 1..Len(replacer_.lru) : replacer_.lru[i].evictable_

\* C20: RecordAccess(f) and SetEvictable(f, b) throw, leaving the replacer
\* as it was, for every frame id f outside [0, num_frames), f = num_frames
\* included; for f inside the range they never throw.
C20_InvalidFrameRejected ==
  \A f \in RepFrameIds :
    /\ LRUK_InvalidFrame(replacer_, f) <=> (f \notin 0..(replacer_.replacer_size_ - 1))
    /\ (f \notin 0..(replacer_.replacer_size_ - 1)) =>
         /\ LRUK_RecordAccess(replacer_, f) = replacer_
         /\ \A set_evictable \in BOOLEAN :
              LRUK_SetEvictable(replacer_, f, set_evictable) = replacer_

\* Evict, called right after SetEvictable(f, true), returns f
EvictReturns(f) ==
  LET e == LRUK_Evict(LRUK_SetEvictable(replacer_, f, TRUE))
  IN e.ok /\ e.frame_id = f
\* another evictable frame is a strictly older FIFO victim than f: it has
\* fewer than k accesses and was first accessed before f
OlderFifoVictim(f) ==
  \E g \in EvictableFrames \ {f} :
    Count(g) < replacer_.k_ /\ FirstAccess(g) < FirstAccess(f)

\* C21 as claimed: for a tracked frame f, Evict called right after
\* SetEvictable(f, true) returns f if and only if no other evictable frame
\* is a strictly older FIFO victim.
C21_EvictAfterSetEvictable ==
  \A f \in LRUK_Tracked(replacer_) : EvictReturns(f) <=> ~OlderFifoVictim(f)

\* C21 amended: Evict called right after SetEvictable(f, true) returns f
\* only if no other evictable frame is a strictly older FIFO victim; for a
\* frame f with fewer than k accesses it returns f exactly in that case.
\* (A frame with k accesses or more is passed over for any evictable frame
\* with fewer than k, and for a frame of its region accessed longer ago.)
C21_EvictAfterSetEvictableFifo ==
  \A f \in LRUK_Tracked(replacer_) :
    /\ EvictReturns(f) => ~OlderFifoVictim(f)
    /\ Count(f) < replacer_.k_ => (EvictReturns(f) <=> ~OlderFifoVictim(f))

\* with k = 2, frame 0 was accessed once and is evictable, frame 1 was
\* accessed twice, earlier, and is evictable: Evict returns frame 0, and
\* would not return frame 1 after SetEvictable(1, true)
C21_Witness ==
  /\ replacer_.k_ = 2
  /\ EvictableFrames = {0, 1}
  /\ Count(0) = 1 /\ Count(1) = 2
  /\ LastAccess(1) < FirstAccess(0)
  /\ EvictReturns(0) /\ ~EvictReturns(1)

(***************************************************************************)
(* The extendible hash table on its own: a caller makes any calls of       *)
(* Insert, Remove and Find on a table (held in page_table_) built with a   *)
(* bucket size of 1 .. BucketSize.  live is what the caller knows: for     *)
(* each key the value of its last Insert, 0 after a Remove.  In last, ret  *)
(* is the value Find stored (0: Find returned false), and 1 or 0 for the   *)
(* bool of Remove.                                                         *)
(***************************************************************************)
\* keys 0 .. HtMaxKey and values 1 .. HtMaxValue of the calls
HtMaxKey == 5
HtMaxValue == 2
HtKeys == 0..HtMaxKey
HtValues == 1..HtMaxValue
htothers ==
  <<pool_size_, pages_, replacer_, free_list_, next_page_id_, disk,
    root_page_id_, leaf_max_size_, internal_max_size_, ndebug, crashed, calls,
    threadvars, history>>

HtInit ==
  /\ \E bucket_size \in 1..BucketSize : page_table_ = ExtendibleHashTable(bucket_size)
  /\ pool_size_ = 0
  /\ pages_ = <<>>
  /\ replacer_ = LRUKReplacer(0, ReplacerK)
  /\ free_list_ = <<>>
  /\ next_page_id_ = 0
  /\ disk = DiskManager({})
  /\ root_page_id_ = INVALID_PAGE_ID
  /\ leaf_max_size_ = 0
  /\ internal_max_size_ = 0
  /\ ndebug = FALSE
  /\ crashed = FALSE
  /\ live = [k \in HtKeys |-> 0]
  /\ last = NoCall
  /\ calls = 0
  /\ SingleCaller

HtInsert(k, v) ==
  /\ page_table_' = HT_Insert(page_table_, k, v)
  /\ live' = [live EXCEPT ![k] = v]
  /\ last' = [op |-> "Insert", key |-> k, ret |-> 0]
  /\ UNCHANGED htothers

HtRemove(k) ==
  /\ page_table_' = HT_Remove(page_table_, k)
  /\ live' = [live EXCEPT ![k] = 0]
  /\ last' = [op |-> "Remove", key |-> k, ret |-> IF HT_Has(page_table_, k) THEN 1 ELSE 0]
  /\ UNCHANGED htothers

HtFind(k) ==
  /\ last' = [op |-> "Find", key |-> k,
              ret |-> IF HT_Has(page_table_, k) THEN HT_Find(page_table_, k) ELSE 0]
  /\ UNCHANGED <<page_table_, live, htothers>>

HtNext ==
  \/ \E k \in HtKeys, v \in HtValues : HtInsert(k, v)
  \/ \E k \in HtKeys : HtRemove(k)
  \/ \E k \in HtKeys : HtFind(k)

SpecHt == HtInit /\ [][HtNext]_vars

\* the places (bucket, position in its list) where the table holds key k
HT_Places(ht, k) ==
  {ij \in (1..Len(ht.buckets)) \X (1..ht.bucket_size_) :
     ij[2] <= Len(ht.buckets[ij[1]].list_) /\ ht.buckets[ij[1]].list_[ij[2]].k = k}

\* C22: for any sequence of Insert and Remove calls, Find(k) returns the
\* value of the most recent Insert(k, v) not followed by Remove(k) and
\* misses otherwise; the table never holds two entries for a key; what
\* Find returns for k does not depend on the splits and the directory
\* growth that inserts of other keys caused since.
C22_FindReturnsLastInsert ==
  /\ \A k \in HtKeys :
       /\ HT_Has(page_table_, k) <=> (live[k] # 0)
       /\ HT_Has(page_table_, k) => HT_Find(page_table_, k) = live[k]
       /\ Cardinality(HT_Places(page_table_, k)) <= 1
  /\ last.op = "Find" => last.ret = live[last.key]
  /\ last.op = "Remove" => live[last.key] = 0

\* Find has just returned the value of the second Insert of key 0; since
\* that Insert the directory has grown to depth 2 and key 4, removed, misses
C22_Witness ==
  /\ last = [op |-> "Find", key |-> 0, ret |-> 2]
  /\ page_table_.global_depth_ = 2
  /\ page_table_.num_buckets_ >= 3
  /\ live[4] = 0 /\ ~HT_Has(page_table_, 4)
  /\ live[2] = 1

\* the bucket that slot i of the directory points to
SlotBucket(ht, i) == ht.buckets[ht.dir_[i + 1]]
Slots(ht) == 0..(Len(ht.dir_) - 1)

\* C23: after every operation of the hash table the directory has exactly
\* 2^G slots; every bucket's local depth L is at most G; two slots point to
\* the same bucket exactly when they agree on their low L bits, L being
\* that bucket's local depth; every key stored in the bucket of slot i has
\* hash(k) mod 2^L = i mod 2^L; no bucket holds more than bucket_size items.
C23_DirectoryShape ==
  LET ht == page_table_
  IN /\ Len(ht.dir_) = Pow2(ht.global_depth_)
     /\ \A i \in Slots(ht) : SlotBucket(ht, i).depth_ <= ht.global_depth_
     /\ \A i, j \in Slots(ht) :
          (ht.dir_[i + 1] = ht.dir_[j + 1])
            <=> (i % Pow2(SlotBucket(ht, i).depth_) = j % Pow2(SlotBucket(ht, i).depth_))
     /\ \A i \in Slots(ht) :
          \A n \in 1..Len(SlotBucket(ht, i).list_) :
            HT_Hash(SlotBucket(ht, i).list_[n].k) % Pow2(SlotBucket(ht, i).depth_)
              = i % Pow2(SlotBucket(ht, i).depth_)
     /\ \A i \in Slots(ht) : Len(SlotBucket(ht, i).list_) <= ht.bucket_size_

\* the directory has grown to 8 slots; a bucket of local depth 1 is shared
\* by four of them and a full bucket of local depth 3 has a slot of its own
C23_Witness ==
  /\ page_table_.global_depth_ = 3
  /\ \E i \in Slots(page_table_) :
       SlotBucket(page_table_, i).depth_ = 1 /\ SlotBucket(page_table_, i).list_ # <<>>
  /\ \E i \in Slots(page_table_) :
       /\ SlotBucket(page_table_, i).depth_ = 3
       /\ Len(SlotBucket(page_table_, i).list_) = page_table_.bucket_size_

\* the buckets the directory refers to
DirBuckets(ht) == {ht.dir_[i + 1] : i \in Slots(ht)}
\* the local depths, slot by slot
LocalDepths(ht) == [i \in Slots(ht) |-> SlotBucket(ht, i).depth_]

\* C24: after every operation of the hash table the bucket count it reports
\* is the number of distinct buckets the directory refers to; each split
\* that Insert makes of a full bucket raises both by exactly one; Remove
\* changes neither the bucket count nor the global depth nor any local
\* depth.
C24_BucketCount ==
  LET ht == page_table_
  IN /\ ht.num_buckets_ = Cardinality(DirBuckets(ht))
     /\ \A k \in HtKeys :
          ~Bucket_CanInsert(HT_Bucket(ht, k), k) =>
            /\ HT_Split(ht, HT_IndexOf(ht, k)).num_buckets_ = ht.num_buckets_ + 1
            /\ Cardinality(DirBuckets(HT_Split(ht, HT_IndexOf(ht, k))))
                 = Cardinality(DirBuckets(ht)) + 1
     /\ \A k \in HtKeys :
          /\ HT_Remove(ht, k).num_buckets_ = ht.num_buckets_
          /\ HT_Remove(ht, k).global_depth_ = ht.global_depth_
          /\ HT_Remove(ht, k).dir_ = ht.dir_
          /\ LocalDepths(HT_Remove(ht, k)) = LocalDepths(ht)

\* a Remove has just emptied a bucket of a table of four buckets, one of
\* them shared by several slots of the directory
C24_Witness ==
  /\ last.op = "Remove" /\ last.ret = 1
  /\ page_table_.num_buckets_ = 4
  /\ Len(page_table_.dir_) = 8
  /\ HT_Bucket(page_table_, last.key).list_ = <<>>

(***************************************************************************)
(* An empty hash table filled with the keys 0 .. 3 (std::hash is the       *)
(* identity, so these are items whose hashes are 0, 1, 2, 3), each         *)
(* inserted once, in any order.                                            *)
(***************************************************************************)
FillKeys == 0..3
FillInsert(k, v) == live[k] = 0 /\ HtInsert(k, v)
FillNext == \E k \in FillKeys, v \in HtValues : FillInsert(k, v)
SpecHtFill == HtInit /\ [][FillNext]_vars

Filled == \A k \in FillKeys : live[k] # 0

\* C25 as claimed: starting from an empty table with global depth 0 and
\* bucket capacity 2, inserting four items whose hashes are 0, 1, 2, 3 ends
\* with global depth 2 and four buckets, each of local depth 2.
C25_FourInsertsDepth2 ==
  (Filled /\ page_table_.bucket_size_ = 2) =>
    /\ page_table_.global_depth_ = 2
    /\ page_table_.num_buckets_ = 4
    /\ \A i \in Slots(page_table_) : SlotBucket(page_table_, i).depth_ = 2

\* C25 amended: with bucket capacity 2 the four inserts end with global
\* depth 1 and two buckets of local depth 1, one holding the hashes 0 and 2,
\* the other 1 and 3; it is with bucket capacity 1 that they end with
\* global depth 2 and four buckets, each of local depth 2.
C25_FourInsertsDepth1 ==
  Filled =>
    /\ \A k \in FillKeys : HT_Has(page_table_, k) /\ HT_Find(page_table_, k) = live[k]
    /\ page_table_.bucket_size_ = 2 =>
         /\ page_table_.global_depth_ = 1
         /\ page_table_.num_buckets_ = 2
         /\ \A i \in Slots(page_table_) : SlotBucket(page_table_, i).depth_ = 1
         /\ \A k \in FillKeys : HT_Bucket(page_table_, k) = SlotBucket(page_table_, k % 2)
    /\ page_table_.bucket_size_ = 1 =>
         /\ page_table_.global_depth_ = 2
         /\ page_table_.num_buckets_ = 4
         /\ \A i \in Slots(page_table_) : SlotBucket(page_table_, i).depth_ = 2

\* the four items are in, in a table of bucket capacity 2, the last one
\* inserted after a split
C25_Witness ==
  /\ Filled
  /\ page_table_.bucket_size_ = 2
  /\ last.op = "Insert"
  /\ page_table_.num_buckets_ > 1

\* C37: for every k >= 1, after any sequence of replacer operations, every
\* tracked frame with fewer than k accesses lies in the FIFO region and
\* every tracked frame with k accesses or more in the LRU region; the FIFO
\* region is ordered by first access and the LRU region by most recent
\* access; a newly admitted frame has count 1 and is not evictable.
C37_TwoRegions ==
  LET r == replacer_
  IN /\ \A f \in LRUK_Tracked(r) :
          /\ Count(f) < r.k_ => f \in LRUK_Keys(r.fifo)
          /\ Count(f) >= r.k_ => f \in LRUK_Keys(r.lru)
     /\ \A i, j \in 1..Len(r.fifo) :
          i < j => FirstAccess(r.fifo[i].key_) > FirstAccess(r.fifo[j].key_)
     /\ \A i, j \in 1..Len(r.lru) :
          i < j => LastAccess(r.lru[i].key_) > LastAccess(r.lru[j].key_)
     /\ \A f \in 0..(RepFrames - 1) :
          f \notin LRUK_Tracked(r) =>
            LET n == LRUK_Node(LRUK_RecordAccess(r, f), f)
            IN n.frequency_ = 1 /\ ~n.evictable_

(***************************************************************************)
(* The replacer of src/buffer/lru_k_replacer.cpp, under one caller.        *)
(* A node is an address: that of the frame it was allocated for, or one of *)
(* the three sentinels.  The list is kept as the code keeps it, through    *)
(* the left_ and right_ members.  map_ keeps the entry of a node that      *)
(* Remove has deleted (freed).  fifo_size_ and lru_size_ are read only as  *)
(* their sum.  Every member function takes latch_, a std::mutex, with a    *)
(* lock_guard; locking a std::mutex the thread already owns is undefined:  *)
(* the call blocks for ever or throws.  A use of a deleted node, and       *)
(* delete[] of a node allocated with new, either end the process or go on. *)
(***************************************************************************)
DraftFrameIds == 0..RepFrames
Draft_l == RepFrames + 1
Draft_m == RepFrames + 2
Draft_r == RepFrames + 3
DraftCaller == Min(Threads)

Draft_LinkedNode(key) ==
  [key_ |-> key, frequency_ |-> 1, left_ |-> NULL, right_ |-> NULL, evictable_ |-> FALSE]

Draft_LRUKReplacer(num_frames, k) ==
  [replacer_size_ |-> num_frames, k_ |-> k, curr_size_ |-> 0, size_sum_ |-> 0,
   map_ |-> {}, freed |-> {},
   node |-> [a \in 0..Draft_r |->
               IF a = Draft_l THEN [Draft_LinkedNode(-1) EXCEPT !.right_ = Draft_m]
               ELSE IF a = Draft_m
               THEN [Draft_LinkedNode(-1) EXCEPT !.left_ = Draft_l, !.right_ = Draft_r]
               ELSE IF a = Draft_r THEN [Draft_LinkedNode(-1) EXCEPT !.left_ = Draft_m]
               ELSE Draft_LinkedNode(a)]]

\* node->left_->right_ = node->right_; node->right_->left_ = node->left_;
Draft_Unlink(node, a) ==
  LET n1 == [node EXCEPT ![node[a].left_].right_ = node[a].right_]
  IN [n1 EXCEPT ![n1[a].right_].left_ = n1[a].left_]

\* RecordAccess of a frame that map_ holds
Draft_RecordAgain(r, f) ==
  LET n1 == [r.node EXCEPT ![f].frequency_ = @ + 1]
      n2 == Draft_Unlink(n1, f)
  IN IF n1[f].frequency_ >= r.k_
     THEN [r EXCEPT !.node = [n2 EXCEPT ![f].left_ = Draft_m,
                                        ![f].right_ = n2[Draft_m].right_,
                                        ![Draft_m].right_ = f]]
     ELSE [r EXCEPT !.node = n1]

\* RecordAccess of a new frame, with room left
Draft_RecordNew(r, f) ==
  [r EXCEPT !.curr_size_ = @ + 1,
            !.map_ = @ \cup {f},
            !.node = [@ EXCEPT ![f] = [Draft_LinkedNode(f) EXCEPT !.left_ = Draft_l,
                                                                  !.right_ = r.node[Draft_l].right_],
                               ![Draft_l].right_ = f]]

Draft_SetEvictable(r, f, set_evictable) ==
  [r EXCEPT !.node[f].evictable_ = set_evictable, !.size_sum_ = @ + 1]

Draft_Remove(r, f) ==
  IF f \notin r.map_ \/ ~r.node[f].evictable_ THEN r
  ELSE [r EXCEPT !.node = Draft_Unlink(@, f), !.freed = @ \cup {f}]

Draft_Size(r) == r.size_sum_

draftothers ==
  <<pool_size_, pages_, page_table_, free_list_, next_page_id_, disk, root_page_id_,
    leaf_max_size_, internal_max_size_, ndebug, live, calls, history>>

DraftInit ==
  /\ \E k \in 1..RepMaxK : replacer_ = Draft_LRUKReplacer(RepFrames, k)
  /\ pool_size_ = RepFrames
  /\ pages_ = <<>>
  /\ page_table_ = ExtendibleHashTable(BucketSize)
  /\ free_list_ = <<>>
  /\ next_page_id_ = 0
  /\ disk = DiskManager({})
  /\ root_page_id_ = INVALID_PAGE_ID
  /\ leaf_max_size_ = 0
  /\ internal_max_size_ = 0
  /\ ndebug = FALSE
  /\ crashed = FALSE
  /\ live = <<>>
  /\ last = NoCall
  /\ calls = 0
  /\ SingleCaller

DraftReady == ~crashed /\ latch_ = NoThread /\ pc[DraftCaller] = Idle

\* the call returns, the lock_guard releasing latch_
DraftReturn(r, op, key, ret) ==
  /\ replacer_' = r
  /\ last' = [op |-> op, key |-> key, ret |-> ret]
  /\ UNCHANGED <<crashed, threadvars, draftothers>>

\* the process ends inside the call
DraftAbort(op, key) ==
  /\ crashed' = TRUE
  /\ last' = [op |-> op, key |-> key, ret |-> 0]
  /\ UNCHANGED <<replacer_, threadvars, draftothers>>

\* a member function that holds latch_ calls one that takes it
DraftRelock(op, key) ==
  /\ latch_' = DraftCaller
  /\ last' = [op |-> op, key |-> key, ret |-> 0]
  /\ \/ pc' = [pc EXCEPT ![DraftCaller] = [Idle EXCEPT !.op = "blocked"]] /\ crashed' = crashed
     \/ pc' = [pc EXCEPT ![DraftCaller] = [Idle EXCEPT !.op = "thrown"]] /\ crashed' = TRUE
  /\ UNCHANGED <<replacer_, draftothers>>

\* what follows a use of a deleted node
DraftUse(f, op, r, ret) ==
  IF f \in replacer_.freed
  THEN DraftAbort(op, f) \/ DraftReturn(r, op, f, ret)
  ELSE DraftReturn(r, op, f, ret)

DraftRecordAccess(f) ==
  /\ DraftReady
  /\ IF f \in replacer_.map_
     THEN /\ replacer_.node[f].frequency_ < RepMaxCount
          /\ DraftUse(f, "RecordAccess", Draft_RecordAgain(replacer_, f), 0)
     ELSE IF replacer_.curr_size_ = replacer_.replacer_size_
     THEN DraftRelock("RecordAccess", f)
     ELSE DraftReturn(Draft_RecordNew(replacer_, f), "RecordAccess", f, 0)

\* map_[frame_id] of a frame that map_ does not hold is a null pointer
DraftSetEvictable(f, set_evictable) ==
  /\ DraftReady
  /\ replacer_.size_sum_ < RepMaxCount
  /\ IF f \notin replacer_.map_ THEN DraftAbort("SetEvictable", f)
     ELSE DraftUse(f, "SetEvictable", Draft_SetEvictable(replacer_, f, set_evictable), 0)

DraftRemove(f) ==
  /\ DraftReady
  /\ IF f \in replacer_.map_ /\ f \notin replacer_.freed /\ replacer_.node[f].evictable_
     THEN DraftAbort("Remove", f) \/ DraftReturn(Draft_Remove(replacer_, f), "Remove", f, 0)
     ELSE DraftUse(f, "Remove", Draft_Remove(replacer_, f), 0)

DraftSize ==
  /\ DraftReady
  /\ DraftReturn(replacer_, "Size", 0, Draft_Size(replacer_))

\* Evict: std::lock_guard<std::mutex> lock(latch_);
DraftEvictLock ==
  /\ DraftReady
  /\ latch_' = DraftCaller
  /\ pc' = [pc EXCEPT ![DraftCaller] = [Idle EXCEPT !.op = "Evict"]]
  /\ last' = [op |-> "Evict", key |-> 0, ret |-> 0]
  /\ UNCHANGED <<replacer_, crashed, draftothers>>

\* Evict: if (Size() == 0), Size taking latch_ again
DraftEvictSize ==
  /\ ~crashed
  /\ pc[DraftCaller].op = "Evict"
  /\ latch_ = DraftCaller
  /\ DraftRelock("Evict", 0)

DraftNext ==
  \/ \E f \in DraftFrameIds : DraftRecordAccess(f)
  \/ \E f \in DraftFrameIds, set_evictable \in BOOLEAN : DraftSetEvictable(f, set_evictable)
  \/ \E f \in DraftFrameIds : DraftRemove(f)
  \/ DraftSize
  \/ DraftEvictLock
  \/ DraftEvictSize

SpecDraft == DraftInit /\ [][DraftNext]_vars

\* C40: Evict of src/buffer/lru_k_replacer.cpp, called by a single thread
\* on any replacer state, returns true or false and releases the latch: it
\* never blocks on the latch it already holds and never ends in an error.
\* A call of Evict is under way while pc holds "Evict"; it has returned
\* when the caller is idle again and latch_ is free.
C40_EvictReturns ==
  last.op = "Evict" =>
    /\ ~crashed
    /\ pc[DraftCaller].op \in {"idle", "Evict"}
    /\ pc[DraftCaller].op = "idle" => latch_ = NoThread

(***************************************************************************)
(* B+ tree pages.  d is the data of a page read as a tree page.  A slot of *)
(* array_ is a pair [k, v]; slot i of the code is array_[i + 1].           *)
(***************************************************************************)
LEAF_PAGE == 1
INTERNAL_PAGE == 2
HEADER_PAGE_ID == 0

IsLeafPage(d) == d.page_type_ = LEAF_PAGE
IsRootPage(d) == d.parent_page_id_ = INVALID_PAGE_ID
\* ceil((max_size - 1) / 2) for a leaf, ceil(max_size / 2) for an internal page
GetMinSize(d) == IF IsLeafPage(d) THEN d.max_size_ \div 2 ELSE (d.max_size_ + 1) \div 2

KeyAt(d, index) == d.array_[index + 1].k
ValueAt(d, index) == d.array_[index + 1].v
SetKeyAt(d, index, key) == [d EXCEPT !.array_[index + 1].k = key]

Leaf_Init(d, page_id, parent_id, max_size) ==
  [d EXCEPT !.page_type_ = LEAF_PAGE, !.size_ = 0, !.page_id_ = page_id,
            !.parent_page_id_ = parent_id, !.max_size_ = max_size,
            !.next_page_id_ = INVALID_PAGE_ID]

Internal_Init(d, page_id, parent_id, max_size) ==
  [d EXCEPT !.page_type_ = INTERNAL_PAGE, !.size_ = 0, !.page_id_ = page_id,
            !.parent_page_id_ = parent_id, !.max_size_ = max_size]

\* the linear search of FindKey: [found, value]
Leaf_FindKey(d, key) ==
  LET S == {i \in 0..(d.size_ - 1) : KeyAt(d, i) = key}
  IN [found |-> S # {}, value |-> IF S = {} THEN 0 ELSE ValueAt(d, Min(S))]

\* the first slot whose key is >= key, size when there is none
Leaf_FindIndex(d, key) ==
  LET S == {i \in 0..(d.size_ - 1) : KeyAt(d, i) >= key}
  IN IF S = {} THEN Max({0, d.size_}) ELSE Min(S)

\* the first slot from 1 on whose key is > key; the loop starts at 1, so 1
\* is the least it returns
Internal_FindIndex(d, key) ==
  LET S == {i \in 1..(d.size_ - 1) : KeyAt(d, i) > key}
  IN IF S = {} THEN Max({1, d.size_}) ELSE Min(S)

\* for (i = size; i > index; i--) array_[i] = array_[i - 1];
\* array_[index] = kv; IncreaseSize(1)
Page_InsertAt(d, index, kv) ==
  [d EXCEPT !.size_ = @ + 1,
            !.array_ = SeqOf([j \in 1..ArrayCap |->
                                IF j - 1 = index THEN kv
                                ELSE IF j - 1 > index /\ j - 1 <= d.size_ THEN d.array_[j - 1]
                                ELSE d.array_[j]], ArrayCap)]

\* for (i = index; i + 1 < size; i++) array_[i] = array_[i + 1]; IncreaseSize(-1)
Page_EraseAt(d, index) ==
  [d EXCEPT !.size_ = @ - 1,
            !.array_ = SeqOf([j \in 1..ArrayCap |->
                                IF j - 1 >= index /\ j < d.size_ THEN d.array_[j + 1]
                                ELSE d.array_[j]], ArrayCap)]

\* InsertAfter and PushBack, of a leaf and of an internal page alike
InsertAfter(d, key, value) ==
  [d EXCEPT !.array_[d.size_ + 1] = [k |-> key, v |-> value], !.size_ = @ + 1]

Leaf_Insert(d, key, value) == Page_InsertAt(d, Leaf_FindIndex(d, key), [k |-> key, v |-> value])
Internal_Insert(d, key, value) ==
  Page_InsertAt(d, Internal_FindIndex(d, key), [k |-> key, v |-> value])

\* Remove reads array_[index] before it compares index with the size
Leaf_Remove(d, key) ==
  LET index == Leaf_FindIndex(d, key)
  IN IF KeyAt(d, index) # key THEN d
     ELSE IF index >= d.size_ THEN d
     ELSE Page_EraseAt(d, index)

SetValue0(d, value) ==
  [d EXCEPT !.size_ = IF @ = 0 THEN 1 ELSE @, !.array_[1].v = value]

\* PopBack and PopFront give [d, kv]
PopBack(d) == [d |-> [d EXCEPT !.size_ = @ - 1], kv |-> d.array_[d.size_]]
PopFront(d) == [d |-> Page_EraseAt(d, 0), kv |-> d.array_[1]]
PushFront(d, kv) == Page_InsertAt(d, 0, kv)
PushBack(d, kv) == InsertAfter(d, kv.k, kv.v)
RemoveByIndex(d, index) == Page_EraseAt(d, index)

\* new_node->InsertAfter(node->KeyAt(i), node->ValueAt(i)) for i in from..(to - 1)
RECURSIVE CopyFrom(_, _, _, _)
CopyFrom(dst, src, from, to) ==
  IF from >= to THEN dst
  ELSE CopyFrom(InsertAfter(dst, KeyAt(src, from), ValueAt(src, from)), src, from + 1, to)

\* HeaderPage, with one record: the number of records is the first field of
\* the page, the record's root id the value of the first slot
Header_InsertRecord(d, root_id) ==
  IF d.page_type_ > 0 THEN d
  ELSE [d EXCEPT !.page_type_ = 1, !.array_[1] = [k |-> 0, v |-> root_id]]
Header_UpdateRecord(d, root_id) ==
  IF d.page_type_ = 0 THEN d ELSE [d EXCEPT !.array_[1].v = root_id]

(***************************************************************************)
(* BPlusTree.  T is the tree with the buffer pool under it:                *)
(*   [s |-> the pool's members, root_page_id_, crashed].                   *)
(* A pointer to a page or to a node is the index of the frame.  Once the   *)
(* process has died (crashed) no later step of the call has any effect.    *)
(***************************************************************************)
Data(T, p) == IF p \in DOMAIN T.s.pages_ THEN T.s.pages_[p].data_ ELSE ZeroData
SetData(T, p, d) ==
  IF T.crashed \/ p \notin DOMAIN T.s.pages_ THEN T ELSE [T EXCEPT !.s.pages_[p].data_ = d]

\* assert(cond): aborts the process unless the build defines NDEBUG
assert(T, cond) == IF T.crashed \/ ndebug \/ cond THEN T ELSE [T EXCEPT !.crashed = TRUE]

\* BufferPoolManager::FetchPage and NewPage; every caller in the tree uses
\* the pointer it gets at once, so a nullptr ends the process
FetchPage(T, page_id) ==
  IF T.crashed THEN [T |-> T, p |-> NULL]
  ELSE Only([r \in {FetchPgImp(T.s, page_id)} |->
    [T |-> [T EXCEPT !.s = r.s, !.crashed = (r.ret = NULL)], p |-> r.ret]])

NewPage(T) ==
  IF T.crashed THEN [T |-> T, p |-> NULL, page_id |-> INVALID_PAGE_ID]
  ELSE Only([r \in {NewPgImp(T.s)} |->
    [T |-> [T EXCEPT !.s = r.s, !.crashed = (r.ret = NULL)],
     p |-> r.ret, page_id |-> r.page_id]])

UnpinPage(T, page_id, is_dirty) ==
  IF T.crashed THEN T ELSE [T EXCEPT !.s = UnpinPgImp(T.s, page_id, is_dirty).s]

DeletePage(T, page_id) ==
  IF T.crashed THEN [T |-> T, ret |-> FALSE]
  ELSE Only([r \in {DeletePgImp(T.s, page_id)} |-> [T |-> [T EXCEPT !.s = r.s], ret |-> r.ret]])

\* assert(buffer_pool_manager_->DeletePage(page_id)): with NDEBUG the call
\* is compiled out together with the assert
AssertDeletePage(T, page_id) ==
  IF T.crashed \/ ndebug THEN T
  ELSE Only([r \in {DeletePage(T, page_id)} |-> assert(r.T, r.ret)])

\* the setters of a tree page, through a node pointer
SetSize(T, node, size) == SetData(T, node, [Data(T, node) EXCEPT !.size_ = size])
SetNextPageId(T, node, next_page_id) ==
  SetData(T, node, [Data(T, node) EXCEPT !.next_page_id_ = next_page_id])
SetParentPageId(T, node, parent_id) ==
  SetData(T, node, [Data(T, node) EXCEPT !.parent_page_id_ = parent_id])

IsEmpty(T) == T.root_page_id_ = INVALID_PAGE_ID

UpdateRootPageId(T, insert_record) ==
  Only([f \in {FetchPage(T, HEADER_PAGE_ID)} |->
    LET d == Data(f.T, f.p)
    IN UnpinPage(SetData(f.T, f.p, IF insert_record # 0
                                   THEN Header_InsertRecord(d, T.root_page_id_)
                                   ELSE Header_UpdateRecord(d, T.root_page_id_)),
                 HEADER_PAGE_ID, TRUE)])

\* The descent shared by FindLeaf (how = "key"), Begin (how = "first") and
\* End (how = "last"): fetch the child, unpin it at once, go on from it.
\* A descent through more pages than exist goes round a cycle for ever.
RECURSIVE Descend(_, _, _, _, _)
Descend(T, cur_node, key, how, fuel) ==
  IF T.crashed \/ IsLeafPage(Data(T, cur_node)) THEN [T |-> T, p |-> cur_node]
  ELSE IF fuel = 0 THEN [T |-> [T EXCEPT !.crashed = TRUE], p |-> cur_node]
  ELSE LET inner_node == Data(T, cur_node)
           page_id == IF how = "key"
                      THEN ValueAt(inner_node, Internal_FindIndex(inner_node, key) - 1)
                      ELSE IF how = "first" THEN ValueAt(inner_node, 0)
                      ELSE ValueAt(inner_node, Max({0, inner_node.size_ - 1}))
       IN Only([f \in {FetchPage(T, page_id)} |->
            Descend(UnpinPage(f.T, page_id, FALSE), f.p, key, how, fuel - 1)])

DescendFromRoot(T, key, how) ==
  Only([r \in {FetchPage(T, T.root_page_id_)} |->
  Only([l \in {Descend(r.T, r.p, key, how, T.s.next_page_id_ + 2)} |->
    [T |-> UnpinPage(l.T, T.root_page_id_, FALSE), p |-> l.p]])])

FindLeaf(T, key) == DescendFromRoot(T, key, "key")

\* [T, ret, value]: value stands for what is pushed to result
GetValue(T, key) ==
  IF IsEmpty(T) THEN [T |-> T, ret |-> FALSE, value |-> 0]
  ELSE Only([f \in {FindLeaf(T, key)} |->
    LET r == Leaf_FindKey(Data(f.T, f.p), key)
    IN [T |-> f.T, ret |-> r.found /\ ~f.T.crashed, value |-> r.value]])

\* as LeafSplit, with the old leaf keeping the larger half
LeafSplit_LargerHalfKept(T, leaf_node) ==
  Only([n \in {NewPage(T)} |->
  Only([T1 \in {SetData(n.T, n.p, Leaf_Init(Data(n.T, n.p), n.page_id, INVALID_PAGE_ID,
                                            leaf_max_size_))} |->
    LET old_size == Data(T1, leaf_node).size_
        half == (old_size + 1) \div 2
    IN
  Only([T2 \in {SetData(T1, n.p, CopyFrom(Data(T1, n.p), Data(T1, leaf_node), half, old_size))} |->
  Only([T3 \in {SetSize(SetSize(T2, leaf_node, half), n.p, old_size - half)} |->
  Only([T4 \in {SetNextPageId(T3, n.p, Data(T3, leaf_node).next_page_id_)} |->
    [T |-> UnpinPage(SetNextPageId(T4, leaf_node, n.page_id), n.page_id, TRUE), p |-> n.p]
  ])])])])])

\* returns [T, p]: p the new leaf
LeafSplit(T, leaf_node) ==
  Only([n \in {NewPage(T)} |->
  Only([T1 \in {SetData(n.T, n.p, Leaf_Init(Data(n.T, n.p), n.page_id, INVALID_PAGE_ID,
                                            leaf_max_size_))} |->
    LET old_size == Data(T1, leaf_node).size_
        half == old_size \div 2
    IN
  Only([T2 \in {SetData(T1, n.p, CopyFrom(Data(T1, n.p), Data(T1, leaf_node), half, old_size))} |->
  Only([T3 \in {SetSize(SetSize(T2, leaf_node, half), n.p, old_size - half)} |->
  Only([T4 \in {SetNextPageId(T3, n.p, Data(T3, leaf_node).next_page_id_)} |->
    [T |-> UnpinPage(SetNextPageId(T4, leaf_node, n.page_id), n.page_id, TRUE), p |-> n.p]
  ])])])])])

\* internal_page is the copy in mem, not a frame; returns [T, copy, p]
InternalSplit(T, internal_page) ==
  Only([n \in {NewPage(T)} |->
  Only([T1 \in {SetData(n.T, n.p, Internal_Init(Data(n.T, n.p), n.page_id, INVALID_PAGE_ID,
                                                internal_max_size_))} |->
    LET old_size == internal_page.size_
        half == 1 + (old_size - 1) \div 2
    IN
  Only([T2 \in {SetData(T1, n.p, CopyFrom(Data(T1, n.p), internal_page, half, old_size))} |->
    [T |-> UnpinPage(SetSize(T2, n.p, old_size - half), n.page_id, TRUE),
     copy |-> [internal_page EXCEPT !.size_ = half], p |-> n.p]
  ])])])

\* NewPage(&root_page_id_): the member is written through the out-parameter
\* when a frame was found
NewRootPage(T) ==
  Only([n \in {NewPage(T)} |->
    [T |-> IF n.p = NULL THEN n.T ELSE [n.T EXCEPT !.root_page_id_ = n.page_id], p |-> n.p]])

RECURSIVE InsertIntoParent(_, _, _, _)
InsertIntoParent(T, old_node, key, new_node) ==
  IF T.crashed THEN T
  ELSE IF IsRootPage(Data(T, old_node))
  THEN
    Only([n \in {NewRootPage(T)} |->
      LET root == n.T.root_page_id_
          new_root == InsertAfter(SetValue0(Internal_Init(Data(n.T, n.p), root, INVALID_PAGE_ID,
                                                          internal_max_size_),
                                            Data(n.T, old_node).page_id_),
                                  key, Data(n.T, new_node).page_id_)
      IN UnpinPage(UpdateRootPageId(SetParentPageId(SetParentPageId(SetData(n.T, n.p, new_root),
                                                                    old_node, root),
                                                    new_node, root),
                                    0),
                   root, TRUE)])
  ELSE
    LET parent_page_id == Data(T, old_node).parent_page_id_ IN
    Only([f \in {FetchPage(T, parent_page_id)} |->
      LET parent_page == f.p
          parent_page_node == Data(f.T, parent_page)
          \* the page, or its copy in mem, after Insert(key, new_node->GetPageId())
          inserted == Internal_Insert(parent_page_node, key, Data(f.T, new_node).page_id_)
      IN IF parent_page_node.size_ < internal_max_size_
         THEN UnpinPage(SetParentPageId(SetData(f.T, parent_page, inserted), new_node,
                                        parent_page_id),
                        parent_page_id, TRUE)
         ELSE
           Only([sp \in {InternalSplit(f.T, inserted)} |->
           Only([T1 \in {SetParentPageId(sp.T, new_node, Data(sp.T, sp.p).page_id_)} |->
             LET parent_new_split_node == sp.p
                 new_risen_key == KeyAt(Data(T1, parent_new_split_node), 0)
                 \* memcpy back: the header and the first GetSize() pairs of the copy
                 copied == [sp.copy EXCEPT !.array_ =
                              SeqOf([j \in 1..ArrayCap |->
                                       IF j <= sp.copy.size_ THEN sp.copy.array_[j]
                                       ELSE Data(T1, parent_page).array_[j]], ArrayCap)]
             IN UnpinPage(InsertIntoParent(SetData(T1, parent_page, copied), parent_page,
                                           new_risen_key, parent_new_split_node),
                          parent_page_id, TRUE)])])])

InsertIntoLeaf(T, key, value) ==
  Only([f \in {FindLeaf(T, key)} |->
  Only([T1 \in {SetData(f.T, f.p, Leaf_Insert(Data(f.T, f.p), key, value))} |->
    IF T1.crashed \/ Data(T1, f.p).size_ < leaf_max_size_ THEN T1
    ELSE Only([sp \in {LeafSplit(T1, f.p)} |->
           InsertIntoParent(sp.T, f.p, KeyAt(Data(sp.T, sp.p), 0), sp.p)])])])

\* [T, ret]
Insert(T, key, value) ==
  IF IsEmpty(T)
  THEN
    Only([n \in {NewRootPage(T)} |->
    Only([T1 \in {assert(n.T, n.p # NULL)} |->
      LET leaf_page == Leaf_Init(Data(T1, n.p), T1.root_page_id_, INVALID_PAGE_ID,
                                 leaf_max_size_)
      IN
    Only([T2 \in {SetData(T1, n.p, Leaf_Insert(leaf_page, key, value))} |->
      [T |-> UpdateRootPageId(UnpinPage(T2, T2.root_page_id_, TRUE), 1), ret |-> TRUE]
    ])])])
  ELSE
    Only([g \in {GetValue(T, key)} |->
      IF g.ret THEN [T |-> g.T, ret |-> FALSE]
      ELSE [T |-> InsertIntoLeaf(g.T, key, value), ret |-> TRUE]])

UpdataParentKey(T, old_key, new_key, cur_node) ==
  LET parent_id == Data(T, cur_node).parent_page_id_ IN
  Only([f \in {FetchPage(assert(T, parent_id # 0), parent_id)} |->
    LET parent_node == f.p
        index == Internal_FindIndex(Data(f.T, parent_node), old_key) - 1
    IN
  Only([T1 \in {assert(f.T, Data(f.T, cur_node).page_id_
                              = ValueAt(Data(f.T, parent_node), index))} |->
    LET dirty == KeyAt(Data(T1, parent_node), index) = old_key
    IN UnpinPage(IF dirty
                 THEN SetData(T1, parent_node, SetKeyAt(Data(T1, parent_node), index, new_key))
                 ELSE T1,
                 parent_id, dirty)
  ])])

\* [T, ret].  A brother that is fetched and found not to be rich is not
\* unpinned.  The left brother is looked at only when index - 1 > 0.
RedistributeBrother(T, key, cur_node) ==
  LET parent_id == Data(T, cur_node).parent_page_id_ IN
  Only([f \in {FetchPage(assert(T, parent_id # 0), parent_id)} |->
    LET parent_node == f.p
        index == Internal_FindIndex(Data(f.T, parent_node), key) - 1
        \* lines 279-297: the rich left brother gives its last pair
        FromLeft(A, left, left_brother_page_id) ==
          Only([kv \in {PopBack(Data(A, left)).kv} |->
          Only([B \in {SetData(A, left, PopBack(Data(A, left)).d)} |->
            LET parent_key == KeyAt(Data(B, parent_node), index)
            IN UnpinPage(UnpinPage(
                 IF IsLeafPage(Data(A, left))
                 THEN Only([C \in {SetData(B, cur_node, PushFront(Data(B, cur_node), kv))} |->
                        SetData(C, parent_node,
                                SetKeyAt(Data(C, parent_node), index, KeyAt(Data(C, cur_node), 0)))])
                 ELSE Only([C \in {SetData(B, parent_node,
                                           SetKeyAt(Data(B, parent_node), index, kv.k))} |->
                      Only([D \in {SetData(C, cur_node,
                                           SetKeyAt(Data(C, cur_node), 0, parent_key))} |->
                        SetData(D, cur_node, PushFront(Data(D, cur_node), kv))])]),
                 left_brother_page_id, TRUE), parent_id, TRUE)])])
        \* lines 309-326: the rich right brother gives its first pair
        FromRight(A, right, right_brother_page_id) ==
          LET parent_key == KeyAt(Data(A, parent_node), index + 1)
          IN UnpinPage(UnpinPage(
               IF IsLeafPage(Data(A, right))
               THEN Only([kv \in {PopFront(Data(A, right)).kv} |->
                    Only([B \in {SetData(A, right, PopFront(Data(A, right)).d)} |->
                    Only([C \in {SetData(B, cur_node, PushBack(Data(B, cur_node), kv))} |->
                      SetData(C, parent_node,
                              SetKeyAt(Data(C, parent_node), index + 1, KeyAt(Data(C, right), 0)))
                    ])])])
               ELSE Only([B \in {SetData(A, right, SetKeyAt(Data(A, right), 0, parent_key))} |->
                    Only([kv \in {PopFront(Data(B, right)).kv} |->
                    Only([C \in {SetData(B, right, PopFront(Data(B, right)).d)} |->
                    Only([D \in {SetData(C, parent_node,
                                         SetKeyAt(Data(C, parent_node), index + 1,
                                                  KeyAt(Data(C, right), 0)))} |->
                      SetData(D, cur_node, PushBack(Data(D, cur_node), kv))
                    ])])])]),
               right_brother_page_id, TRUE), parent_id, TRUE)
    IN
  Only([T1 \in {assert(f.T, Data(f.T, cur_node).page_id_
                              = ValueAt(Data(f.T, parent_node), index))} |->
    LET try_left == index - 1 > 0
        left_brother_page_id == ValueAt(Data(T1, parent_node), index - 1)
    IN
    IF T1.crashed THEN [T |-> T1, ret |-> FALSE]
    ELSE
  Only([lf \in {IF try_left THEN FetchPage(T1, left_brother_page_id)
                ELSE [T |-> T1, p |-> NULL]} |->
    LET try_right == index + 1 < Data(lf.T, parent_node).size_
        right_brother_page_id == ValueAt(Data(lf.T, parent_node), index + 1)
    IN
    IF try_left /\ Data(lf.T, lf.p).size_ > GetMinSize(Data(lf.T, lf.p))
    THEN [T |-> FromLeft(lf.T, lf.p, left_brother_page_id), ret |-> TRUE]
    ELSE
  Only([rf \in {IF try_right THEN FetchPage(lf.T, right_brother_page_id)
                ELSE [T |-> lf.T, p |-> NULL]} |->
    IF try_right /\ Data(rf.T, rf.p).size_ > GetMinSize(Data(rf.T, rf.p))
    THEN [T |-> FromRight(rf.T, rf.p, right_brother_page_id), ret |-> TRUE]
    ELSE [T |-> UnpinPage(rf.T, parent_id, FALSE), ret |-> FALSE]
  ])])])])

\* left->PushBack(make_pair(left->KeyAt(i), left->ValueAt(i))) for i in from..(to - 1):
\* the loop of the internal merge into the left brother reads the left brother itself
RECURSIVE SelfAppend(_, _, _)
SelfAppend(d, from, to) ==
  IF from >= to THEN d
  ELSE SelfAppend(InsertAfter(d, KeyAt(d, from), ValueAt(d, from)), from + 1, to)

RECURSIVE MergeBrother(_, _, _)
MergeBrother(T, key, cur_node) ==
  IF T.crashed THEN T
  ELSE IF IsRootPage(Data(T, cur_node))
  THEN
    Only([T0 \in {assert(T, ~IsLeafPage(Data(T, cur_node)))} |->
      LET new_root_page_id == ValueAt(Data(T0, cur_node), 0)
      IN IF Data(T0, cur_node).size_ # 1 THEN T0
         ELSE
    Only([d \in {DeletePage(T0, T0.root_page_id_)} |->
    Only([f \in {FetchPage(IF d.T.crashed THEN d.T
                           ELSE [d.T EXCEPT !.root_page_id_ = new_root_page_id],
                           new_root_page_id)} |->
      UnpinPage(UpdateRootPageId(SetParentPageId(f.T, f.p, INVALID_PAGE_ID), 0),
                new_root_page_id, TRUE)
    ])])])
  ELSE IF Data(T, cur_node).size_ >= GetMinSize(Data(T, cur_node)) THEN T
  ELSE
  Only([rd \in {RedistributeBrother(T, key, cur_node)} |->
    LET parent_page_id == Data(rd.T, cur_node).parent_page_id_ IN
    IF rd.T.crashed \/ rd.ret THEN rd.T
    ELSE
  Only([f \in {FetchPage(rd.T, parent_page_id)} |->
    LET parent_node == f.p
        index == Internal_FindIndex(Data(f.T, parent_node), key) - 1
        \* what every merge ends with: the entry leaves the parent, the parent is
        \* looked after, both pages are unpinned, the emptied page is deleted
        Finish(A, removed_index, brother_page_id, emptied_node) ==
          Only([D \in {UnpinPage(UnpinPage(
                         MergeBrother(SetData(A, parent_node,
                                              RemoveByIndex(Data(A, parent_node), removed_index)),
                                      key, parent_node),
                         brother_page_id, TRUE), parent_page_id, TRUE)} |->
            AssertDeletePage(D, Data(D, emptied_node).page_id_)])
    IN
  Only([T1 \in {assert(f.T, Data(f.T, cur_node).page_id_
                              = ValueAt(Data(f.T, parent_node), index))} |->
    LET try_left == index - 1 > 0
        left_brother_page_id == ValueAt(Data(T1, parent_node), index - 1)
    IN
    IF T1.crashed THEN T1
    ELSE
  Only([lf \in {IF try_left THEN FetchPage(T1, left_brother_page_id)
                ELSE [T |-> T1, p |-> NULL]} |->
    LET L == lf.T
        left == lf.p
        left_fits_leaf ==
          /\ try_left /\ IsLeafPage(Data(L, cur_node))
          /\ Data(L, left).size_ + Data(L, cur_node).size_ < Data(L, cur_node).max_size_
        left_fits_inner ==
          /\ try_left /\ ~IsLeafPage(Data(L, cur_node))
          /\ Data(L, left).size_ + Data(L, cur_node).size_ <= Data(L, cur_node).max_size_
    IN
    IF left_fits_leaf
    THEN Finish(SetSize(SetData(L, left, CopyFrom(Data(L, left), Data(L, cur_node), 0,
                                                  Data(L, cur_node).size_)),
                        cur_node, 0),
                index, left_brother_page_id, cur_node)
    ELSE IF left_fits_inner
    THEN Only([A \in {SetData(L, cur_node,
                              SetKeyAt(Data(L, cur_node), 0, KeyAt(Data(L, parent_node), index)))} |->
           Finish(SetSize(SetData(A, left, SelfAppend(Data(A, left), 0, Data(L, cur_node).size_)),
                          cur_node, 0),
                  index, left_brother_page_id, cur_node)])
    ELSE
  Only([T2 \in {IF try_left THEN UnpinPage(L, parent_page_id, FALSE) ELSE T1} |->
    LET try_right == index + 1 < Data(T2, parent_node).size_
        right_brother_page_id == ValueAt(Data(T2, parent_node), index + 1)
    IN
  Only([rf \in {IF try_right THEN FetchPage(T2, right_brother_page_id)
                ELSE [T |-> T2, p |-> NULL]} |->
    LET R == rf.T
        right == rf.p
        right_fits_leaf ==
          /\ try_right /\ IsLeafPage(Data(R, cur_node))
          /\ Data(R, right).size_ + Data(R, cur_node).size_ < Data(R, cur_node).max_size_
        right_fits_inner ==
          /\ try_right /\ ~IsLeafPage(Data(R, cur_node))
          /\ Data(R, right).size_ + Data(R, cur_node).size_ <= Data(R, cur_node).max_size_
    IN
    IF right_fits_leaf
    THEN Finish(SetSize(SetData(R, cur_node, CopyFrom(Data(R, cur_node), Data(R, right), 0,
                                                      Data(R, right).size_)),
                        right, 0),
                index + 1, right_brother_page_id, right)
    ELSE IF right_fits_inner
    THEN Only([A \in {SetData(R, right,
                              SetKeyAt(Data(R, right), 0, KeyAt(Data(R, parent_node), index + 1)))} |->
           Finish(SetSize(SetData(A, cur_node, CopyFrom(Data(A, cur_node), Data(A, right), 0,
                                                        Data(A, right).size_)),
                          right, 0),
                  index + 1, right_brother_page_id, right)])
    ELSE assert(UnpinPage(R, parent_page_id, FALSE), FALSE)
  ])])])])])])

Remove(T, key) ==
  IF IsEmpty(T) THEN T
  ELSE
  Only([f \in {FindLeaf(T, key)} |->
    LET leaf_node == f.p
        leaf_old_size == Data(f.T, leaf_node).size_
        old_key0 == KeyAt(Data(f.T, leaf_node), 0)
    IN
  Only([T2 \in {SetData(assert(f.T, leaf_old_size > 0), leaf_node,
                        Leaf_Remove(Data(f.T, leaf_node), key))} |->
    IF T2.crashed \/ IsRootPage(Data(T2, leaf_node)) THEN T2
    ELSE IF leaf_old_size > GetMinSize(Data(T2, leaf_node))
    THEN Only([T3 \in {assert(T2, leaf_old_size > 1)} |->
           IF old_key0 = key
           THEN UpdataParentKey(T3, key, KeyAt(Data(T3, leaf_node), 0), leaf_node)
           ELSE T3])
    ELSE MergeBrother(T2, key, leaf_node)
  ])])

(***************************************************************************)
(* IndexIterator: [leaf_node_, key_index_], leaf_node_ a frame.            *)
(***************************************************************************)
Begin(T) ==
  LET l == DescendFromRoot(assert(T, ~IsEmpty(T)), 0, "first")
  IN [T |-> l.T, it |-> [leaf_node_ |-> l.p, key_index_ |-> 0]]

End(T) ==
  LET l == DescendFromRoot(assert(T, ~IsEmpty(T)), 0, "last")
  IN [T |-> l.T, it |-> [leaf_node_ |-> l.p, key_index_ |-> Data(l.T, l.p).size_]]

\* Begin(key)
BeginAt(T, key) ==
  LET l == FindLeaf(assert(T, ~IsEmpty(T)), key)
  IN [T |-> l.T, it |-> [leaf_node_ |-> l.p,
                         key_index_ |-> Leaf_FindIndex(Data(l.T, l.p), key)]]

Iter_IsEnd(T, it) ==
  /\ it.key_index_ >= Data(T, it.leaf_node_).size_
  /\ Data(T, it.leaf_node_).next_page_id_ = INVALID_PAGE_ID

\* operator*: the slot at key_index_, within size or not
Iter_Deref(T, it) == Data(T, it.leaf_node_).array_[it.key_index_ + 1]

\* as Iter_Increment, stepping on where the index is already past the leaf
Iter_Increment_NoThrow(T, it) ==
  LET leaf == Data(T, it.leaf_node_)
      f == FetchPage(T, leaf.next_page_id_)
  IN IF it.key_index_ < leaf.size_ - 1 \/ leaf.next_page_id_ = INVALID_PAGE_ID
     THEN [T |-> T, it |-> [it EXCEPT !.key_index_ = @ + 1]]
     ELSE [T |-> UnpinPage(f.T, leaf.next_page_id_, FALSE),
           it |-> [leaf_node_ |-> f.p, key_index_ |-> 0]]

\* operator++; the throw is not caught anywhere and ends the process
Iter_Increment(T, it) ==
  LET leaf == Data(T, it.leaf_node_)
      f == FetchPage(T, leaf.next_page_id_)
  IN IF it.key_index_ >= leaf.size_ THEN [T |-> [T EXCEPT !.crashed = TRUE], it |-> it]
     ELSE IF it.key_index_ < leaf.size_ - 1 \/ leaf.next_page_id_ = INVALID_PAGE_ID
     THEN [T |-> T, it |-> [it EXCEPT !.key_index_ = @ + 1]]
     ELSE [T |-> UnpinPage(f.T, leaf.next_page_id_, FALSE),
           it |-> [leaf_node_ |-> f.p, key_index_ |-> 0]]

\* for (it = Begin(); it != End(); ++it) out.push_back(*it): [T, out].
\* A scan of more steps than there are slots goes round the chain for ever.
RECURSIVE ScanFrom(_, _, _, _)
ScanFrom(T, it, out, fuel) ==
  LET e == End(T)
      n == Iter_Increment(e.T, it)
  IN IF T.crashed \/ e.T.crashed THEN [T |-> e.T, out |-> out]
     ELSE IF it = e.it THEN [T |-> e.T, out |-> out]
     ELSE IF fuel = 0 THEN [T |-> [e.T EXCEPT !.crashed = TRUE], out |-> out]
     ELSE ScanFrom(n.T, n.it, Append(out, Iter_Deref(e.T, it)), fuel - 1)

Scan(T) ==
  LET b == Begin(T) IN ScanFrom(b.T, b.it, <<>>, (T.s.next_page_id_ + 2) * ArrayCap)

(***************************************************************************)
(* The tree under a single caller.  The harness builds the pool and takes  *)
(* page 0 for the header page, which it keeps pinned, before it builds the *)
(* tree; the build is either one, with or without NDEBUG.                  *)
(***************************************************************************)
Tree == [s |-> Bpm, root_page_id_ |-> root_page_id_, crashed |-> crashed]

SetTree(T) ==
  /\ SetBpm(T.s)
  /\ root_page_id_' = T.root_page_id_
  /\ crashed' = T.crashed

Keys == 1..MaxGrowKey
\* the RID stored with key k
ValueOf(k) == 10 + k

TreeInit ==
  /\ InitBpm(NewPgImp(BufferPoolManagerInstance(TreePoolSize, DiskManager({}),
                                                ReplacerK, BucketSize)).s)
  /\ root_page_id_ = INVALID_PAGE_ID
  /\ leaf_max_size_ = LeafMaxSize
  /\ internal_max_size_ = InternalMaxSize
  /\ ndebug \in BOOLEAN
  /\ crashed = FALSE
  /\ live = [k \in Keys |-> 0]
  /\ last = NoCall
  /\ calls = 0
  /\ SingleCaller

InsertCall(k) ==
  /\ ~crashed
  /\ \E r \in {Insert(Tree, k, ValueOf(k))} :
       /\ SetTree(r.T)
       /\ last' = [op |-> "Insert", key |-> k, ret |-> IF r.ret THEN 1 ELSE 0]
  /\ live' = [live EXCEPT ![k] = IF @ = 0 THEN ValueOf(k) ELSE @]
  /\ calls' = calls + 1
  /\ UNCHANGED <<leaf_max_size_, internal_max_size_, ndebug, threadvars, history>>

RemoveCall(k) ==
  /\ ~crashed
  /\ SetTree(Remove(Tree, k))
  /\ last' = [op |-> "Remove", key |-> k, ret |-> 0]
  /\ live' = [live EXCEPT ![k] = 0]
  /\ calls' = calls + 1
  /\ UNCHANGED <<leaf_max_size_, internal_max_size_, ndebug, threadvars, history>>

TreeInsert(k) == calls < MaxCalls /\ InsertCall(k)
TreeRemove(k) == calls < MaxCalls /\ RemoveCall(k)

TreeNext ==
  \/ \E k \in 1..MaxKey : TreeInsert(k)
  \/ \E k \in 1..MaxKey : TreeRemove(k)

SpecTree == TreeInit /\ [][TreeNext]_vars

GrowInsert(k) == calls < MaxGrowKey /\ live[k] = 0 /\ InsertCall(k)

GrowNext == \E k \in Keys : GrowInsert(k)

SpecGrow == TreeInit /\ [][GrowNext]_vars

(***************************************************************************)
(* What a caller can see of the tree.  The content of a page is the frame  *)
(* that holds it, or else its copy on disk.                                *)
(***************************************************************************)
PageOf(T, page_id) ==
  IF HT_Has(T.s.page_table_, page_id)
  THEN T.s.pages_[HT_Find(T.s.page_table_, page_id)].data_
  ELSE DiskRead(T.s.disk, page_id)

TreeContent(T) ==
  [root |-> T.root_page_id_,
   pages |-> [page_id \in 0..(T.s.next_page_id_ - 1) |-> PageOf(T, page_id)]]

\* the pages reachable from page_id through child pointers, at most depth deep
RECURSIVE Attached(_, _, _)
Attached(T, page_id, depth) ==
  LET d == PageOf(T, page_id)
  IN IF IsLeafPage(d) \/ depth = 0 THEN {page_id}
     ELSE {page_id} \cup UNION {Attached(T, ValueAt(d, i), depth - 1) : i \in 0..(d.size_ - 1)}

\* the keys in the leaves under page_id
SubtreeKeys(T, page_id, depth) ==
  UNION {{KeyAt(PageOf(T, q), i) : i \in 0..(PageOf(T, q).size_ - 1)} :
         q \in {a \in Attached(T, page_id, depth) : IsLeafPage(PageOf(T, a))}}

\* no tree of these workloads is deeper
MaxDepth == 4

AttachedPages == Attached(Tree, root_page_id_, MaxDepth)

\* the live pairs in ascending key order
RECURSIVE LivePairs(_)
LivePairs(k) ==
  IF k > MaxGrowKey THEN <<>>
  ELSE (IF live[k] # 0 THEN <<[k |-> k, v |-> live[k]]>> ELSE <<>>) \o LivePairs(k + 1)

\* C1: get_value(k) returns true with value v exactly when k was inserted
\* with v and has not been removed since, for every key, after any sequence
\* of inserts and removes that ran to completion.
C1_RoundTrip ==
  ~crashed =>
    \A k \in Keys :
      LET g == GetValue(Tree, k)
      IN /\ ~g.T.crashed
         /\ g.ret <=> live[k] # 0
         /\ g.ret => g.value = live[k]

\* C2: insert(k, v2) of a key the tree already contains returns false and
\* leaves the root page id and every page as they were, and get_value(k)
\* still returns the value inserted first.
C2_DuplicateRejected ==
  ~crashed =>
    \A k \in Keys :
      live[k] # 0 =>
        LET r == Insert(Tree, k, ValueOf(k) + 1)
            g == GetValue(r.T, k)
        IN /\ ~r.T.crashed
           /\ ~r.ret
           /\ TreeContent(r.T) = TreeContent(Tree)
           /\ g.ret /\ g.value = live[k]

\* C3: iterating from begin() with ++ until end() yields exactly the live
\* (key, value) pairs, each once, in strictly ascending key order.
C3_ScanAscendingLive ==
  (~crashed /\ ~IsEmpty(Tree)) =>
    LET s == Scan(Tree)
    IN ~s.T.crashed /\ s.out = LivePairs(1)

\* C4: remove(k) of a key that is not in the tree completes without error or
\* assertion failure and leaves the tree's contents and structure unchanged.
C4_RemoveAbsentNoOp ==
  ~crashed =>
    \A k \in 1..MaxKey :
      live[k] = 0 =>
        LET r == Remove(Tree, k)
        IN ~r.crashed /\ TreeContent(r) = TreeContent(Tree)

\* C5: when remove deletes the last remaining key, the tree becomes empty:
\* the root page id is -1 and is_empty() returns true.
C5_LastKeyEmptiesTree ==
  [][\A k \in 1..MaxKey :
       (/\ TreeRemove(k)
        /\ live[k] # 0
        /\ \A j \in Keys \ {k} : live[j] = 0
        /\ ~crashed')
       => (root_page_id_' = INVALID_PAGE_ID /\ IsEmpty(Tree)')]_vars

\* C6: after any sequence of inserts and removes the keys of every attached
\* page are strictly ascending, and for every internal entry (k_i, c_i),
\* i >= 1, every key under c_i is >= k_i and every key under c_{i-1} is < k_i.
C6_KeysOrdered ==
  (~crashed /\ ~IsEmpty(Tree)) =>
    \A page_id \in AttachedPages :
      LET d == PageOf(Tree, page_id)
          first == IF IsLeafPage(d) THEN 0 ELSE 1
      IN /\ \A i \in first..(d.size_ - 2) : KeyAt(d, i) < KeyAt(d, i + 1)
         /\ ~IsLeafPage(d) =>
              \A i \in 1..(d.size_ - 1) :
                /\ \A k \in SubtreeKeys(Tree, ValueAt(d, i), MaxDepth) : k >= KeyAt(d, i)
                /\ \A k \in SubtreeKeys(Tree, ValueAt(d, i - 1), MaxDepth) : k < KeyAt(d, i)

(***************************************************************************)
(* Two threads calling Insert on one tree.  The tree of b_plus_tree.cpp    *)
(* takes no latch: FindLeaf returns the leaf unlatched and unpinned, and   *)
(* the page's Insert reads the index and the size, shifts the pairs and    *)
(* then increases the size.  A thread's call is taken in four steps: the   *)
(* duplicate test and the descent; the reads of Insert; its writes; the    *)
(* size test with the split.  The steps of the two threads interleave in   *)
(* any order.  A few keys are inserted first by a single caller.           *)
(***************************************************************************)
LeafSeeds == 2
LeafKeys == 1..MaxKey

Returned(t) == \E i \in 1..Len(history) : history[i].thread = t
InFlight(k) == \E u \in Threads : pc[u] # Idle /\ pc[u].key = k

LeafSeed(k) ==
  /\ history = <<>>
  /\ pc = [t \in Threads |-> Idle]
  /\ calls < LeafSeeds
  /\ live[k] = 0
  /\ InsertCall(k)

\* Insert up to the return of FindLeaf in InsertIntoLeaf
LeafCall(t, k) ==
  /\ ~crashed
  /\ ~IsEmpty(Tree)
  /\ pc[t] = Idle
  /\ ~Returned(t)
  /\ live[k] = 0
  /\ ~InFlight(k)
  /\ \E g \in {GetValue(Tree, k)} :
       IF g.ret
       THEN /\ SetTree(g.T)
            /\ history' = Append(history, [thread |-> t, key |-> k, leaf_node |-> NULL,
                                           ret |-> FALSE])
            /\ pc' = pc
       ELSE \E f \in {FindLeaf(g.T, k)} :
              /\ SetTree(f.T)
              /\ pc' = [pc EXCEPT ![t] = [op |-> "Insert", key |-> k, leaf_node |-> f.p,
                                          index |-> 0, size |-> 0]]
              /\ history' = history
  /\ UNCHANGED <<leaf_max_size_, internal_max_size_, ndebug, latch_, live, last, calls>>

\* the page's Insert: int index = FindIndex(key, comparator_); int size = GetSize();
LeafRead(t) ==
  /\ ~crashed
  /\ pc[t] # Idle
  /\ pc[t].op = "Insert"
  /\ LET c == pc[t]
         d == Data(Tree, c.leaf_node)
     IN pc' = [pc EXCEPT ![t] = [c EXCEPT !.op = "Shift",
                                          !.index = Leaf_FindIndex(d, c.key),
                                          !.size = d.size_]]
  /\ UNCHANGED <<bpmvars, treevars, latch_, history>>

\* the page's Insert: the shift from size down to index, the store of the
\* pair, IncreaseSize(1)
LeafWrite(t) ==
  /\ ~crashed
  /\ pc[t] # Idle
  /\ pc[t].op = "Shift"
  /\ LET c == pc[t]
         d == Data(Tree, c.leaf_node)
         array == SeqOf([j \in 1..ArrayCap |->
                           IF j = c.index + 1 THEN [k |-> c.key, v |-> ValueOf(c.key)]
                           ELSE IF j > c.index + 1 /\ j <= c.size + 1 THEN d.array_[j - 1]
                           ELSE d.array_[j]], ArrayCap)
     IN SetTree(SetData(Tree, c.leaf_node, [d EXCEPT !.array_ = array, !.size_ = @ + 1]))
  /\ pc' = [pc EXCEPT ![t].op = "Inserted"]
  /\ UNCHANGED <<leaf_max_size_, internal_max_size_, ndebug, latch_, history, live, last,
                 calls>>

\* InsertIntoLeaf after the page's Insert, and the return of Insert
LeafReturn(t) ==
  /\ ~crashed
  /\ pc[t] # Idle
  /\ pc[t].op = "Inserted"
  /\ LET c == pc[t]
     IN /\ IF Data(Tree, c.leaf_node).size_ < leaf_max_size_
           THEN SetTree(Tree)
           ELSE \E sp \in {LeafSplit(Tree, c.leaf_node)} :
                  SetTree(InsertIntoParent(sp.T, c.leaf_node, KeyAt(Data(sp.T, sp.p), 0), sp.p))
        /\ live' = [live EXCEPT ![c.key] = ValueOf(c.key)]
        /\ last' = [op |-> "Insert", key |-> c.key, ret |-> 1]
        /\ history' = Append(history, [thread |-> t, key |-> c.key, leaf_node |-> c.leaf_node,
                                       ret |-> TRUE])
  /\ pc' = [pc EXCEPT ![t] = Idle]
  /\ UNCHANGED <<leaf_max_size_, internal_max_size_, ndebug, latch_, calls>>

LeafNext ==
  \/ \E k \in LeafKeys : LeafSeed(k)
  \/ \E t \in Threads, k \in LeafKeys : LeafCall(t, k)
  \/ \E t \in Threads : LeafRead(t)
  \/ \E t \in Threads : LeafWrite(t)
  \/ \E t \in Threads : LeafReturn(t)

SpecLeaf == TreeInit /\ [][LeafNext]_vars

\* C27: two inserts of distinct keys by different threads into the same
\* leaf are linearised: after both have returned, both keys are present with
\* their values and the leaves hold exactly the inserted pairs, sorted,
\* none duplicated and none lost, for every interleaving of their steps.
C27_SameLeafLinearised ==
  (/\ ~crashed
   /\ Len(history) = 2
   /\ history[1].leaf_node = history[2].leaf_node) =>
    /\ \A i \in 1..2 :
         LET g == GetValue(Tree, history[i].key)
         IN history[i].ret /\ g.ret /\ g.value = ValueOf(history[i].key)
    /\ Scan(Tree).out = LivePairs(1)

(***************************************************************************)
(* The workload of inserts only, on trees built with leaf_max_size         *)
(* LeafMaxSize or one more.                                                *)
(***************************************************************************)
SplitInit ==
  /\ InitBpm(NewPgImp(BufferPoolManagerInstance(TreePoolSize, DiskManager({}),
                                                ReplacerK, BucketSize)).s)
  /\ root_page_id_ = INVALID_PAGE_ID
  /\ leaf_max_size_ \in {LeafMaxSize, LeafMaxSize + 1}
  /\ internal_max_size_ = InternalMaxSize
  /\ ndebug \in BOOLEAN
  /\ crashed = FALSE
  /\ live = [k \in Keys |-> 0]
  /\ last = NoCall
  /\ calls = 0
  /\ SingleCaller

SpecSplit == SplitInit /\ [][GrowNext]_vars

\* the tree after Insert of the keys k .. n in ascending order
RECURSIVE InsertAll(_, _, _)
InsertAll(T, k, n) ==
  IF k > n THEN T ELSE InsertAll(Insert(T, k, ValueOf(k)).T, k + 1, n)

KeysOf(d) == [i \in 1..d.size_ |-> d.array_[i].k]

\* an internal page reachable from the root holds the pair (key, page_id)
HasSeparator(T, key, page_id) ==
  \E q \in Attached(T, T.root_page_id_, MaxDepth) :
    LET d == PageOf(T, q)
    IN /\ ~IsLeafPage(d)
       /\ \E i \in 0..(d.size_ - 1) : KeyAt(d, i) = key /\ ValueAt(d, i) = page_id

Children(d) == {ValueAt(d, i) : i \in 0..(d.size_ - 1)}
InternalPages == {q \in AttachedPages : ~IsLeafPage(PageOf(Tree, q))}

\* C29: at every quiescent point, for every internal page P and every child
\* page id c stored in P, page c's parent page id is P's page id, and no
\* page is listed as a child of two different parents; so after an internal
\* page has split, the children moved to the new right page point to it and
\* those that stayed point to the left page.
C29_ParentPointers ==
  ~crashed =>
    /\ \A q \in InternalPages :
         \A c \in Children(PageOf(Tree, q)) : PageOf(Tree, c).parent_page_id_ = q
    /\ \A q1, q2 \in InternalPages :
         q1 # q2 => Children(PageOf(Tree, q1)) \cap Children(PageOf(Tree, q2)) = {}

\* C30: when a node underflows after a remove and its left sibling exists
\* and holds strictly more than its minimum, the node borrows the left
\* sibling's last pair, whatever the node's child index in the parent
\* (index 1 included) and whether or not the right sibling is eligible too;
\* when neither sibling can lend and both merges are legal, the node is
\* merged into its left sibling.  Stated for the leaf that holds key k.
C30_LeftSiblingFirst ==
  ~crashed =>
    \A k \in 1..MaxKey :
      LET f == FindLeaf(Tree, k)
          leaf == Data(f.T, f.p)
          parent == PageOf(Tree, leaf.parent_page_id_)
          index == CHOOSE i \in 0..(parent.size_ - 1) : ValueAt(parent, i) = leaf.page_id_
          left == PageOf(Tree, ValueAt(parent, index - 1))
          right == PageOf(Tree, ValueAt(parent, index + 1))
          r == Remove(Tree, k)
          has_left == index >= 1
          has_right == index + 1 < parent.size_
          underflows == /\ live[k] # 0
                        /\ ~IsEmpty(Tree)
                        /\ ~f.T.crashed
                        /\ ~IsRootPage(leaf)
                        /\ ~IsLeafPage(parent)
                        /\ leaf.page_id_ \in Children(parent)
                        /\ Leaf_FindKey(leaf, k).found
                        /\ leaf.size_ - 1 < GetMinSize(leaf)
      IN /\ (underflows /\ has_left /\ left.size_ > GetMinSize(left)) =>
              /\ ~r.crashed
              /\ PageOf(r, left.page_id_).size_ = left.size_ - 1
              /\ PageOf(r, leaf.page_id_).size_ = leaf.size_
              /\ PageOf(r, leaf.page_id_).array_[1] = left.array_[left.size_]
         /\ (/\ underflows /\ has_left /\ has_right
             /\ left.size_ <= GetMinSize(left) /\ right.size_ <= GetMinSize(right)
             /\ left.size_ + leaf.size_ - 1 < leaf_max_size_
             /\ right.size_ + leaf.size_ - 1 < leaf_max_size_) =>
              /\ ~r.crashed
              /\ leaf.page_id_ \notin Children(PageOf(r, parent.page_id_))
              /\ right.page_id_ \in Children(PageOf(r, parent.page_id_))
              /\ PageOf(r, right.page_id_).size_ = right.size_

\* the leaf that holds key k, its parent and its place in the parent
LeafOf(k) == Data(FindLeaf(Tree, k).T, FindLeaf(Tree, k).p)
ParentOf(d) == PageOf(Tree, d.parent_page_id_)
IndexIn(parent, d) == CHOOSE i \in 0..(parent.size_ - 1) : ValueAt(parent, i) = d.page_id_
Pairs(d) == SubSeq(d.array_, 1, d.size_)

\* Remove(k) takes the last pair of a leaf that is a child of its parent
EmptiesLeaf(k) ==
  /\ live[k] # 0
  /\ ~IsEmpty(Tree)
  /\ ~FindLeaf(Tree, k).T.crashed
  /\ ~IsRootPage(LeafOf(k))
  /\ ~IsLeafPage(ParentOf(LeafOf(k)))
  /\ LeafOf(k).page_id_ \in Children(ParentOf(LeafOf(k)))
  /\ Leaf_FindKey(LeafOf(k), k).found
  /\ LeafOf(k).size_ - 1 < GetMinSize(LeafOf(k))

\* C31: after a leaf merge the surviving left leaf holds the entries of both
\* leaves in ascending order, its next pointer is the former next pointer
\* of the removed right leaf, the parent no longer contains the right
\* child, and the right page has been deleted from the buffer pool.  Stated
\* for the two merges the code reaches: that of the leaf at child index 0
\* with its right brother, and that of a leaf at an index above 1 with its
\* left brother, neither brother having a pair to lend.
C31_LeafMerge ==
  ~crashed =>
    \A k \in 1..MaxKey :
      EmptiesLeaf(k) =>
        LET leaf == LeafOf(k)
            parent == ParentOf(leaf)
            index == IndexIn(parent, leaf)
            left == PageOf(Tree, ValueAt(parent, index - 1))
            right == PageOf(Tree, ValueAt(parent, index + 1))
            r == Remove(Tree, k)
            Merged(l, rg, pairs) ==
              /\ ~r.crashed
              /\ Pairs(PageOf(r, l.page_id_)) = pairs
              /\ PageOf(r, l.page_id_).next_page_id_ = rg.next_page_id_
              /\ parent.size_ > 2 =>
                   /\ rg.page_id_ \notin Children(PageOf(r, parent.page_id_))
                   /\ l.page_id_ \in Children(PageOf(r, parent.page_id_))
              /\ ~HT_Has(r.s.page_table_, rg.page_id_)
        IN /\ (/\ index = 0 /\ parent.size_ > 1
               /\ right.size_ <= GetMinSize(right)
               /\ right.size_ + leaf.size_ - 1 < leaf_max_size_) =>
                Merged(leaf, right, Pairs(Leaf_Remove(leaf, k)) \o Pairs(right))
           /\ (/\ index > 1
               /\ left.size_ <= GetMinSize(left)
               /\ left.size_ + leaf.size_ - 1 < leaf_max_size_) =>
                Merged(left, leaf, Pairs(left) \o Pairs(Leaf_Remove(leaf, k)))

(***************************************************************************)
(* The workload that fills a tree with the keys 1 .. MaxShrinkKey, in any  *)
(* order, and then removes up to MaxRemoves of them.                       *)
(***************************************************************************)
MaxShrinkKey == 5
MaxRemoves == 2
LiveCount == Cardinality({k \in Keys : live[k] # 0})

ShrinkInsert(k) == calls = LiveCount /\ calls < MaxShrinkKey /\ live[k] = 0 /\ InsertCall(k)
ShrinkRemove(k) == live[k] # 0 /\ (calls - LiveCount) \div 2 < MaxRemoves /\ RemoveCall(k)

ShrinkNext ==
  \/ \E k \in 1..MaxShrinkKey : ShrinkInsert(k)
  \/ \E k \in 1..MaxShrinkKey : ShrinkRemove(k)

SpecShrink == TreeInit /\ [][ShrinkNext]_vars

Values(d) == [i \in 1..d.size_ |-> d.array_[i].v]

\* C32: after an internal-page merge the surviving left internal page holds
\* its own children followed by all children of the right page in their
\* original order, with the former parent separator as the key in front of
\* the right page's first child; the parent loses the right child, and the
\* right page is freed.  Stated for the merge of an internal page at child
\* index 0 with its right brother, after the page has lost its second
\* child to a leaf merge.
C32_InternalMerge ==
  ~crashed =>
    \A k \in 1..MaxShrinkKey :
      EmptiesLeaf(k) =>
        LET leaf == LeafOf(k)
            node == ParentOf(leaf)
            brother_leaf == PageOf(Tree, ValueAt(node, 1))
            parent == ParentOf(node)
            index == IndexIn(parent, node)
            right == PageOf(Tree, ValueAt(parent, index + 1))
            r == Remove(Tree, k)
            after == PageOf(r, node.page_id_)
        IN (/\ node.size_ = 2
            /\ IndexIn(node, leaf) = 0
            /\ brother_leaf.size_ <= GetMinSize(brother_leaf)
            /\ ~IsRootPage(node)
            /\ ~IsLeafPage(parent)
            /\ node.page_id_ \in Children(parent)
            /\ index = 0
            /\ parent.size_ > 1
            /\ ~IsLeafPage(right)
            /\ right.size_ <= GetMinSize(right)
            /\ right.size_ + 1 <= internal_max_size_) =>
             /\ ~r.crashed
             /\ Values(after) = <<leaf.page_id_>> \o Values(right)
             /\ KeyAt(after, 1) = KeyAt(parent, index + 1)
             /\ \A i \in 1..(right.size_ - 1) : KeyAt(after, 1 + i) = KeyAt(right, i)
             /\ parent.size_ > 2 =>
                  right.page_id_ \notin Children(PageOf(r, parent.page_id_))
             /\ ~HT_Has(r.s.page_table_, right.page_id_)

\* C33: when a remove leaves the internal root with a single child, that
\* child becomes the root (root page id rewritten, the child's parent
\* pointer set to -1, header record updated) and the old root page is
\* freed: it is no longer resident once the remove returns.  Stated for a
\* root over two leaves of which the first loses its last pair and is
\* merged with the second.
C33_RootCollapse ==
  ~crashed =>
    \A k \in 1..MaxKey :
      EmptiesLeaf(k) =>
        LET leaf == LeafOf(k)
            root == ParentOf(leaf)
            right == PageOf(Tree, ValueAt(root, 1))
            r == Remove(Tree, k)
        IN (/\ root.page_id_ = root_page_id_
            /\ root.size_ = 2
            /\ IndexIn(root, leaf) = 0
            /\ IsLeafPage(right)
            /\ right.size_ <= GetMinSize(right)) =>
             /\ ~r.crashed
             /\ r.root_page_id_ = leaf.page_id_
             /\ PageOf(r, leaf.page_id_).parent_page_id_ = INVALID_PAGE_ID
             /\ ValueAt(PageOf(r, HEADER_PAGE_ID), 0) = leaf.page_id_
             /\ ~HT_Has(r.s.page_table_, root.page_id_)

\* C34: the tree reads and writes the contents of a page only while it
\* holds a pin on it.  Insert, Remove and GetValue all work on the leaf that
\* FindLeaf returns: at that step the leaf's pin_count is at least 1.
C34_AccessedWhilePinned ==
  (~crashed /\ ~IsEmpty(Tree)) =>
    \A k \in 1..MaxKey :
      LET f == FindLeaf(Tree, k)
      IN ~f.T.crashed /\ f.T.s.pages_[f.p].pin_count_ >= 1

\* C35: an index iterator holds a pin on its current leaf: the leaf that
\* Begin() positions it on has pin_count at least 1, and when ++ moves from
\* the last entry of a leaf to its successor the iterator stands on the
\* successor at index 0 and the successor is pinned.
C35_IteratorPinsLeaf ==
  (~crashed /\ ~IsEmpty(Tree)) =>
    /\ LET b == Begin(Tree)
       IN ~b.T.crashed /\ b.T.s.pages_[b.it.leaf_node_].pin_count_ >= 1
    /\ \A q \in AttachedPages :
         LET leaf == PageOf(Tree, q)
             it == [leaf_node_ |-> FrameOf(q), key_index_ |-> leaf.size_ - 1]
             n == Iter_Increment(Tree, it)
         IN (/\ IsLeafPage(leaf) /\ leaf.size_ > 0
             /\ leaf.next_page_id_ # INVALID_PAGE_ID
             /\ HT_Has(page_table_, q)) =>
              /\ ~n.T.crashed
              /\ n.it.key_index_ = 0
              /\ Data(n.T, n.it.leaf_node_).page_id_ = leaf.next_page_id_
              /\ n.T.s.pages_[n.it.leaf_node_].pin_count_ >= 1

(***************************************************************************)
(* A caller that builds a tree with inserts and removes, then opens an     *)
(* iterator with Begin() or Begin(key) and advances it with ++.  The       *)
(* iterator is kept in pc[1].                                              *)
(***************************************************************************)
IterOpen == pc[1] # Idle
Iter == [leaf_node_ |-> pc[1].leaf_node_, key_index_ |-> pc[1].key_index_]
IterLeaf == Data(Tree, pc[1].leaf_node_)

IterInsert(k) == ~IterOpen /\ calls < MaxCalls /\ live[k] = 0 /\ InsertCall(k)
IterRemove(k) == ~IterOpen /\ calls < MaxCalls /\ live[k] # 0 /\ RemoveCall(k)

IterSet(r, op, key, ret) ==
  /\ SetTree(r.T)
  /\ pc' = [pc EXCEPT ![1] = [op |-> "iterator", leaf_node_ |-> r.it.leaf_node_,
                              key_index_ |-> r.it.key_index_]]
  /\ last' = [op |-> op, key |-> key, ret |-> ret]
  /\ UNCHANGED <<leaf_max_size_, internal_max_size_, ndebug, latch_, history, live, calls>>

IterBegin ==
  /\ ~crashed /\ ~IsEmpty(Tree) /\ ~IterOpen
  /\ \E r \in {Begin(Tree)} : IterSet(r, "Begin", 0, 0)

IterBeginAt(k) ==
  /\ ~crashed /\ ~IsEmpty(Tree) /\ ~IterOpen
  /\ \E r \in {BeginAt(Tree, k)} : IterSet(r, "BeginAt", k, 0)

\* last.ret: whether IsEnd() was true before the step
IterIncrement ==
  /\ ~crashed /\ IterOpen
  /\ \E r \in {Iter_Increment(Tree, Iter)} :
       IterSet(r, "++", 0, IF Iter_IsEnd(Tree, Iter) THEN 1 ELSE 0)

IterNext ==
  \/ \E k \in 1..MaxKey : IterInsert(k)
  \/ \E k \in 1..MaxKey : IterRemove(k)
  \/ IterBegin
  \/ \E k \in 1..(MaxKey + 1) : IterBeginAt(k)
  \/ IterIncrement

SpecIter == TreeInit /\ [][IterNext]_vars

C39_BeginAtKey ==
  (~crashed /\ IterOpen /\ last.op = "BeginAt") =>
    /\ \/ Iter_IsEnd(Tree, Iter)
       \/ /\ Iter.key_index_ < IterLeaf.size_
          /\ \E j \in last.key..MaxKey :
               /\ live[j] # 0
               /\ \A i \in last.key..(j - 1) : live[i] = 0
               /\ KeyAt(IterLeaf, Iter.key_index_) = j
    /\ ~(Iter.key_index_ = IterLeaf.size_ /\ IterLeaf.next_page_id_ # INVALID_PAGE_ID)

(***************************************************************************)
(* The tree over a pool too small to keep its pages resident: the header   *)
(* page stays pinned in one frame and the tree's pages share the others.   *)
(***************************************************************************)
\* frames of the small pool
SmallPoolSize == 4

SmallInit ==
  /\ InitBpm(NewPgImp(BufferPoolManagerInstance(SmallPoolSize, DiskManager({}),
                                                ReplacerK, BucketSize)).s)
  /\ root_page_id_ = INVALID_PAGE_ID
  /\ leaf_max_size_ = LeafMaxSize
  /\ internal_max_size_ = InternalMaxSize
  /\ ndebug \in BOOLEAN
  /\ crashed = FALSE
  /\ live = [k \in Keys |-> 0]
  /\ last = NoCall
  /\ calls = 0
  /\ SingleCaller

\* GetValue(key, &result) by the caller: the pool's frames move with it
SmallGet(k) ==
  /\ ~crashed
  /\ calls < MaxGrowKey
  /\ \E g \in {GetValue(Tree, k)} :
       /\ SetTree(g.T)
       /\ last' = [op |-> "GetValue", key |-> k, ret |-> IF g.ret THEN g.value ELSE 0]
  /\ calls' = calls + 1
  /\ UNCHANGED <<live, leaf_max_size_, internal_max_size_, ndebug, threadvars, history>>

SmallNext ==
  \/ \E k \in Keys : GrowInsert(k)
  \/ \E k \in Keys : SmallGet(k)

SpecSmall == SmallInit /\ [][SmallNext]_vars

\* C38: with a pool too small to keep all tree pages resident, a key that
\* was inserted with value v is still returned with v by get_value, also
\* after the leaf that received it has been evicted and is fetched again.
C38_SurvivesEviction ==
  ~crashed =>
    \A k \in Keys :
      live[k] # 0 =>
        LET g == GetValue(Tree, k)
        IN g.T.crashed \/ (g.ret /\ g.value = live[k])

\* the pin count of page p: that of the frame holding it, 0 when it is not
\* in the pool
PinCount(p) ==
  IF HT_Has(page_table_, p) THEN pages_[HT_Find(page_table_, p)].pin_count_ ELSE 0

\* C26: every tree operation unpins exactly the pages it pinned, on every
\* path: when the operation returns, each page's pin count equals its value
\* before the call, and no sibling or parent page stays pinned.  (The claim
\* adds that no UnpinPage call failed; the balance of the counts alone is
\* stated here.)
C26_PinsBalanced ==
  [][~crashed' => \A p \in 0..next_page_id_' : PinCount(p)' = PinCount(p)]_vars

\* C7: after any sequence of inserts and removes every attached page other
\* than the root holds at least ceil(internal_max / 2) entries if internal
\* and ceil((leaf_max - 1) / 2) if leaf, and an internal root holds at least
\* 2 children.
C7_MinSize ==
  (~crashed /\ ~IsEmpty(Tree)) =>
    \A page_id \in AttachedPages :
      LET d == PageOf(Tree, page_id)
      IN IF page_id = root_page_id_ THEN IsLeafPage(d) \/ d.size_ >= 2
         ELSE IF IsLeafPage(d) THEN d.size_ >= leaf_max_size_ \div 2
         ELSE d.size_ >= (internal_max_size_ + 1) \div 2

====
